---- MODULE Spec2Model ----
(***************************************************************************)
(* Verification model of charon:                                           *)
(*   - goto-chain contraction (transform/merge_goto_chains.rs) over the    *)
(*     unstructured body of ast/ullbc_ast.rs;                              *)
(*   - translation of trait-resolution witnesses                           *)
(*     (bin/charon-driver/translate/translate_predicates.rs).              *)
(***************************************************************************)
EXTENDS Integers, Sequences, FiniteSets, TLC

VARIABLES
    options,      \* goto pass: [no_merge_goto_chains : BOOLEAN]
    body,         \* goto pass: body.body, a Vector<BlockId, BlockData> (slots may be empty)
    antecedents,  \* goto pass: Vector<BlockId, Antecedents>
    idx,          \* goto pass: position of the iterator body.body.all_indices()
    id,           \* goto pass: the loop variable `mut id`
    pc,           \* goto pass: control point inside transform_body
    round,        \* goto pass: 1 = first run of the pass, 2 = run on its own output
    body0,        \* goto pass: the input body (history)
    body1,        \* goto pass: the output of the first run (history)
    merges,       \* goto pass: number of merges performed in the current run (history)
    hops,         \* goto pass: parity of the number of iterations of the current walk (history)
    t_ctx,        \* translator: the fields of BodyTransCtx the translation reads and writes
    impl_expr,    \* translator: the hax::ImplExpr handed to translate_trait_impl_expr
    t_result,     \* translator: what the call returned (Pending before the call)
    preds,        \* registration: the list preds.predicates of register_predicates
    location,     \* registration: the PredicateLocation of the call
    r_pc,         \* registration: control point inside register_predicates
    r_i,          \* registration: position of the running loop in preds (from 1)
    calls,        \* registration: number of calls of register_predicates begun
    r_log,        \* registration: positions handed to register_predicate, in order (history)
    crate,        \* pruning: ctx.translated, the items of the crate
    doesnt_use_self, \* pruning: the set of ids of the items found not to use clause 0
    p_pc,         \* pruning: control point inside transform_ctx
    p_k,          \* pruning: position of the first loop in the functions to explore (from 1)
    p_todo,       \* pruning: ids of doesnt_use_self the second loop has not visited yet
    crate0,       \* pruning: the crate before the pass (history)
    c_body,       \* comments: the ExprBody `b`, [body : statements in visit order, comments]
    lines_covered_by_statement, \* comments: HashMap from start line to end line
    best_span_for_line,         \* comments: HashMap from start line to Span
    comments_per_line,          \* comments: HashMap from line to comments
    c_pc,         \* comments: control point inside transform_body
    c_i,          \* comments: position of the running traversal in b.body (from 1)
    c_body0,      \* comments: the body before the pass (history)
    store,        \* type store: the shape behind every handle (a handle is a position)
    table,        \* type store: hash -> the handles of the shapes with that hash
    lock,         \* type store: the item that holds the lock of the store, or None
    h_pc,         \* type store: per item, the control point of its running Ty::new
    h_kind,       \* type store: per item, the TyKind handed to its running Ty::new
    h_found,      \* type store: per item, the handles its lookup has found
    h_log,        \* type store: the (type expression, handle) pairs returned so far (history)
    s_body,       \* structuring: the unstructured body handed to the pass
    s_out,        \* structuring: the structured body it returned, or None
    s_pc          \* structuring: control point of the pass

gvars == <<options, body, antecedents, idx, id, pc, round, body0, body1, merges, hops>>

tvars == <<t_ctx, impl_expr, t_result>>

rvars == <<preds, location, r_pc, r_i, calls, r_log>>

pvars == <<crate, doesnt_use_self, p_pc, p_k, p_todo, crate0>>

cvars == <<c_body, lines_covered_by_statement, best_span_for_line, comments_per_line,
           c_pc, c_i, c_body0>>

hvars == <<store, table, lock, h_pc, h_kind, h_found, h_log>>

svars == <<s_body, s_out, s_pc>>

vars == <<gvars, tvars, rvars, pvars, cvars, hvars, svars>>

----------------------------------------------------------------------------
(* Bounds *)

\* Largest number of blocks of an input body.
MaxBlocks == 3

\* Number of observations compared when two bodies are executed side by side.
ObsLen == 5

\* Longest resolution path of a witness.
MaxPath == 2

\* Longest predicate list of the supported kinds.
MaxPreds == 3

\* Longest predicate list of any kinds, the rejected ones included.
MaxAnyPreds == 2

\* Largest number of calls of register_predicates on one context.
MaxCalls == 2

\* Largest number of blocks of a body handed to the structuring pass.
MaxNodes == 3

\* Largest nesting of the recursion of the structuring pass that is followed.
MaxDepth == 12

\* Largest number of types in the store.
MaxTypes == 3

\* Largest number of statements of a structured body.
MaxStmts == 3

\* Largest number of entries of the comment list of a body.
MaxComments == 2

\* Largest number of trait clauses of an item.
MaxClauses == 3

----------------------------------------------------------------------------
(* Option<T>: None is the empty slot, Some(x) a filled one. *)

None == <<>>
Some(x) == <<x>>
unwrap(o) == o[1]

(* The entry block (ullbc_ast.rs: START_BLOCK_ID = BlockId::ZERO). *)
START_BLOCK_ID == 0

----------------------------------------------------------------------------
(* RawTerminator (ullbc_ast.rs).  Operands, places and calls are not looked *)
(* at by the pass and are left out; Drop and Assert have the shape of Call, *)
(* Unreachable the shape of Panic.                                          *)

Goto(target) == <<"Goto", target>>
Switch(t1, t2) == <<"Switch", t1, t2>>
Call(target) == <<"Call", target>>
Return == <<"Return">>
Panic == <<"Panic">>

\* BlockData.targets(): the targets of the terminator, one entry per edge.
targets(terminator) ==
    CASE terminator[1] = "Goto" -> <<terminator[2]>>
      [] terminator[1] = "Switch" -> <<terminator[2], terminator[3]>>
      [] terminator[1] = "Call" -> <<terminator[2]>>
      [] OTHER -> <<>>

BlockData(statements, terminator) ==
    [statements |-> statements, terminator |-> terminator]

----------------------------------------------------------------------------
(* Vector<BlockId, T>: a function from slot index to Option<T>. *)

all_indices(v) == DOMAIN v
present(v) == {i \in DOMAIN v : v[i] # None}
elem_count(v) == Cardinality(present(v))
get(v, i) == IF i \in DOMAIN v THEN v[i] ELSE None

----------------------------------------------------------------------------
(* enum Antecedents and Antecedents::add *)

Zero == <<"Zero">>
One(b) == <<"One", b>>
Many == <<"Many">>

\* add, but a second antecedent replaces the first instead of making Many.
add_second_replaces_first(self, block_id) ==
    CASE self[1] = "Many" -> Many
      [] OTHER -> One(block_id)

add(self, block_id) ==
    CASE self[1] = "Zero" -> One(block_id)
      [] self[1] = "One" -> Many
      [] OTHER -> Many

IsOne(a) == a # None /\ unwrap(a)[1] = "One"

\* The (block_id, target) pairs in the order the two nested loops of
\* transform_body visit them: blocks by index, targets in terminator order.
RECURSIVE edges_from(_, _)
edges_from(b, i) ==
    IF i \notin DOMAIN b THEN <<>>
    ELSE LET ts == IF b[i] = None THEN <<>> ELSE targets(unwrap(b[i]).terminator)
         IN [k \in 1..Len(ts) |-> <<i, ts[k]>>] \o edges_from(b, i + 1)

edges(b) == edges_from(b, 0)

\* antecedents.get_mut(target).unwrap() fails on a target without a block.
dangling(b) ==
    LET es == edges(b) IN \E k \in 1..Len(es) : get(b, es[k][2]) = None

RECURSIVE add_all(_, _, _)
add_all(ant, es, k) ==
    IF k > Len(es) THEN ant
    ELSE add_all([ant EXCEPT ![es[k][2]] = Some(add(unwrap(ant[es[k][2]]), es[k][1]))],
                 es, k + 1)

compute_antecedents(b) ==
    add_all([i \in DOMAIN b |-> IF b[i] = None THEN None ELSE Some(Zero)], edges(b), 1)

----------------------------------------------------------------------------
(* The merge loop of transform_body *)

\* merge_cond, but a target of any number of antecedents is merged.
merge_cond_any_target(b, ant, i) ==
    /\ get(b, i) # None
    /\ unwrap(b[i]).terminator[1] = "Goto"
    /\ get(ant, unwrap(b[i]).terminator[2]) # None

\* merge_cond, but the antecedent recorded for the target has to be the
\* block that is merged into.
merge_cond_recorded_source(b, ant, i) ==
    /\ get(b, i) # None
    /\ unwrap(b[i]).terminator[1] = "Goto"
    /\ get(ant, unwrap(b[i]).terminator[2]) = Some(<<"One", i>>)

\* The condition of the second `while let`.
merge_cond(b, ant, i) ==
    /\ get(b, i) # None
    /\ unwrap(b[i]).terminator[1] = "Goto"
    /\ IsOne(get(ant, unwrap(b[i]).terminator[2]))

\* The target of the straight goto that ends block i.
merge_target(b, i) == unwrap(b[i]).terminator[2]

\* body.body.remove(target).unwrap() fails on an empty slot, body.body[id] on
\* an empty slot.
merge_fails(b, i, target) ==
    \/ get(b, target) = None
    \/ [b EXCEPT ![target] = None][i] = None

\* merge, but the statements of the target are put in front.
merge_prepend(b, i, target) ==
    LET removed == unwrap(b[target])
        rest == [b EXCEPT ![target] = None]
        source == unwrap(rest[i])
    IN [rest EXCEPT ![i] =
            Some(BlockData(removed.statements \o source.statements, removed.terminator))]

\* merge, but the target is read and left in place.
merge_keep_target(b, i, target) ==
    LET removed == unwrap(b[target])
        source == unwrap(b[i])
    IN [b EXCEPT ![i] =
            Some(BlockData(source.statements \o removed.statements, removed.terminator))]

\* The body of the second `while let`.
merge(b, i, target) ==
    LET removed == unwrap(b[target])
        rest == [b EXCEPT ![target] = None]
        source == unwrap(rest[i])
    IN [rest EXCEPT ![i] =
            Some(BlockData(source.statements \o removed.statements, removed.terminator))]

----------------------------------------------------------------------------
(* Results of the translator: Ok(value), Err(message), or the run aborted. *)

Ok(v) == <<"Ok", v>>
Err(msg) == <<"Err", msg>>
Aborted(msg) == <<"Panic", msg>>
is_ok(r) == r[1] = "Ok"

Outcome(res, ctx) == [res |-> res, ctx |-> ctx]

\* self.span_err(span, msg): one more diagnostic.
span_err(ctx, msg) == [ctx EXCEPT !.errors = Append(@, msg)]

\* error_or_panic!(ctx, span, msg): the diagnostic is recorded; the run is
\* aborted unless continue_on_failure, else the function returns Err.
error_or_panic(ctx, msg) ==
    IF ctx.continue_on_failure
    THEN Outcome(Err(msg), span_err(ctx, msg))
    ELSE Outcome(Aborted(msg), span_err(ctx, msg))

\* Position of x in the sequence s (0 when absent).
index_of(s, x) == IF \E k \in 1..Len(s) : s[k] = x
                  THEN CHOOSE k \in 1..Len(s) : s[k] = x
                  ELSE 0

\* register_trait_decl_id(span, def_id): the id of the declaration, allocated
\* in sequence the first time the definition is met.
register_trait_decl(ctx, def_id) ==
    IF index_of(ctx.trait_decl_ids, def_id) # 0 THEN ctx
    ELSE [ctx EXCEPT !.trait_decl_ids = Append(@, def_id)]

trait_decl_id(ctx, def_id) == index_of(ctx.trait_decl_ids, def_id) - 1

\* register_trait_impl_id(span, def_id), likewise.
register_trait_impl(ctx, def_id) ==
    IF index_of(ctx.trait_impl_ids, def_id) # 0 THEN ctx
    ELSE [ctx EXCEPT !.trait_impl_ids = Append(@, def_id)]

trait_impl_id(ctx, def_id) == index_of(ctx.trait_impl_ids, def_id) - 1

\* translate_generic_args(span, None, args, nested, None): the arguments
\* translated, or an error on arguments the model cannot represent.
GoodArgs == "good_args"
BadArgs == "bad_args"
BadArgsMsg == <<"unsupported generic argument">>

translate_generic_args(ctx, args) ==
    IF args = BadArgs THEN error_or_panic(ctx, BadArgsMsg)
    ELSE Outcome(Ok(<<"GenericArgs", args>>), ctx)

\* with_locally_bound_regions_group(span, binder, f), before f: a scope
\* holding the region variables of the binder is pushed in front of
\* region_vars.
push_regions_group(ctx, regions) == [ctx EXCEPT !.region_vars = <<regions>> \o @]

\* with_locally_bound_regions_group(span, binder, f), after f: the scope is
\* popped and the result of f is returned with the region variables.
pop_regions_group(inner, regions) ==
    LET popped(ctx) == [ctx EXCEPT !.region_vars = Tail(@)]
        returned(i) ==
            IF i.res[1] = "Panic" THEN i
            ELSE IF is_ok(i.res) THEN Outcome(Ok(<<i.res[2], regions>>), popped(i.ctx))
            ELSE Outcome(i.res, popped(i.ctx))
    IN CHOOSE out \in {returned(i) : i \in {inner}} : TRUE

----------------------------------------------------------------------------
(* TraitRefKind (ast/types.rs) and its construction in translate_predicates.rs *)

TraitImpl(impl_id, generics) == <<"TraitImpl", impl_id, generics>>
\* DeBruijnVar::free(id)
Free(i) == <<"Free", i>>
Clause(var) == <<"Clause", var>>
ParentClause(inner, decl_id, clause_id) == <<"ParentClause", inner, decl_id, clause_id>>
ItemClause(inner, decl_id, item_name, clause_id) ==
    <<"ItemClause", inner, decl_id, item_name, clause_id>>
SelfId == <<"SelfId">>
BuiltinOrAuto(decl_ref) == <<"BuiltinOrAuto", decl_ref>>
Dyn(decl_ref) == <<"Dyn", decl_ref>>
Unknown(msg) == <<"Unknown", msg>>

TraitRef(kind, trait_decl_ref) == [kind |-> kind, trait_decl_ref |-> trait_decl_ref]
TraitDeclRef(trait_id, generics) == [trait_id |-> trait_id, generics |-> generics]
RegionBinder(regions, skip_binder) == [regions |-> regions, skip_binder |-> skip_binder]

\* trait_decl_ref.fmt_with_ctx(..): the text of a declaration reference.
fmt_with_ctx(trait_decl_ref) == <<"fmt", trait_decl_ref.skip_binder.trait_id>>

\* translate_trait_decl_ref(span, bound_trait_ref)
translate_trait_decl_ref(ctx, bound_trait_ref) ==
    LET c0 == push_regions_group(ctx, bound_trait_ref.bound_vars)
        c1 == register_trait_decl(c0, bound_trait_ref.def_id)
        generics == translate_generic_args(c1, bound_trait_ref.generic_args)
        closure == IF is_ok(generics.res)
                   THEN Outcome(Ok(TraitDeclRef(trait_decl_id(c1, bound_trait_ref.def_id),
                                                generics.res[2])), generics.ctx)
                   ELSE generics
        r == pop_regions_group(closure, bound_trait_ref.bound_vars)
    IN IF is_ok(r.res)
       THEN Outcome(Ok(RegionBinder(r.res[2][2], r.res[2][1])), r.ctx)
       ELSE r

GatMsg(item_name, trait_decl_ref) ==
    <<"Found unsupported GAT", item_name, "when resolving trait", fmt_with_ctx(trait_decl_ref)>>

\* apply_path_elem, but an associated item with generics is walked through.
apply_path_elem_gat_accepted(ctx, trait_id, current_trait_decl_id, path_elem, trait_decl_ref) ==
    LET c1 == register_trait_decl(ctx, path_elem.predicate)
    IN IF path_elem.kind = "AssocItem"
       THEN Outcome(Ok(<<ItemClause(trait_id, current_trait_decl_id,
                                    path_elem.item, path_elem.index),
                         trait_decl_id(c1, path_elem.predicate)>>), c1)
       ELSE Outcome(Ok(<<ParentClause(trait_id, current_trait_decl_id, path_elem.index),
                         trait_decl_id(c1, path_elem.predicate)>>), c1)

\* apply_path_elem, but the current trait declaration is not advanced.
apply_path_elem_stale(ctx, trait_id, current_trait_decl_id, path_elem, trait_decl_ref) ==
    IF path_elem.kind = "AssocItem"
    THEN IF path_elem.generic_args # <<>>
         THEN error_or_panic(ctx, GatMsg(path_elem.item, trait_decl_ref))
         ELSE Outcome(Ok(<<ItemClause(trait_id, current_trait_decl_id,
                                      path_elem.item, path_elem.index),
                           current_trait_decl_id>>),
                      register_trait_decl(ctx, path_elem.predicate))
    ELSE Outcome(Ok(<<ParentClause(trait_id, current_trait_decl_id, path_elem.index),
                      current_trait_decl_id>>),
                 register_trait_decl(ctx, path_elem.predicate))

\* One iteration of `for path_elem in path`: the new trait_id and the new
\* current_trait_decl_id, or the error of an associated item with generics.
apply_path_elem(ctx, trait_id, current_trait_decl_id, path_elem, trait_decl_ref) ==
    IF path_elem.kind = "AssocItem"
    THEN IF path_elem.generic_args # <<>>
         THEN error_or_panic(ctx, GatMsg(path_elem.item, trait_decl_ref))
         ELSE LET c1 == register_trait_decl(ctx, path_elem.predicate)
              IN Outcome(Ok(<<ItemClause(trait_id, current_trait_decl_id,
                                         path_elem.item, path_elem.index),
                              trait_decl_id(c1, path_elem.predicate)>>), c1)
    ELSE LET c1 == register_trait_decl(ctx, path_elem.predicate)
         IN Outcome(Ok(<<ParentClause(trait_id, current_trait_decl_id, path_elem.index),
                         trait_decl_id(c1, path_elem.predicate)>>), c1)

\* `for path_elem in path { ... }` from element k on.
RECURSIVE apply_path(_, _, _, _, _, _)
apply_path(ctx, trait_id, current_trait_decl_id, path, k, trait_decl_ref) ==
    IF k > Len(path) THEN Outcome(Ok(trait_id), ctx)
    ELSE LET step == apply_path_elem(ctx, trait_id, current_trait_decl_id, path[k],
                                     trait_decl_ref)
         IN IF is_ok(step.res)
            THEN apply_path(step.ctx, step.res[2][1], step.res[2][2], path, k + 1,
                            trait_decl_ref)
            ELSE step

\* error_atom, but the run goes on whatever the options are.
error_atom_never_fatal(ctx, msg, trait_decl_ref) ==
    LET trait_ref == TraitRef(Unknown(msg), trait_decl_ref)
        error == <<"Error during trait resolution: ", msg>>
    IN IF ctx.error_on_impl_expr_error
       THEN Outcome(Ok(trait_ref), span_err(ctx, error))
       ELSE Outcome(Ok(trait_ref), ctx)

\* The arm `ImplExprAtom::Error(msg)` of translate_trait_impl_expr_aux.
error_atom(ctx, msg, trait_decl_ref) ==
    LET trait_ref == TraitRef(Unknown(msg), trait_decl_ref)
        error == <<"Error during trait resolution: ", msg>>
    IN IF ctx.error_on_impl_expr_error
       THEN IF ~ctx.continue_on_failure
            THEN Outcome(Aborted(error), span_err(ctx, error))
            ELSE Outcome(Ok(trait_ref), span_err(ctx, error))
       ELSE Outcome(Ok(trait_ref), ctx)

\* translate_trait_impl_expr_aux(span, impl_source, trait_decl_ref)
translate_trait_impl_expr_aux(ctx, impl_source, trait_decl_ref) ==
    LET atom == impl_source.impl
    IN CASE atom.kind = "Concrete" ->
              LET c1 == register_trait_impl(ctx, atom.id)
                  generics == translate_generic_args(c1, atom.generics)
              IN IF is_ok(generics.res)
                 THEN Outcome(Ok(TraitRef(TraitImpl(trait_impl_id(c1, atom.id),
                                                    generics.res[2]),
                                          trait_decl_ref)), generics.ctx)
                 ELSE generics
         [] atom.kind \in {"SelfImpl", "LocalBound"} ->
              LET root == IF atom.kind = "SelfImpl" THEN SelfId
                          ELSE Clause(Free(atom.index))
                  c1 == register_trait_decl(ctx, atom.trait)
                  walked == apply_path(c1, root, trait_decl_id(c1, atom.trait),
                                       atom.path, 1, trait_decl_ref)
              IN IF is_ok(walked.res)
                 THEN Outcome(Ok(TraitRef(walked.res[2], trait_decl_ref)), walked.ctx)
                 ELSE walked
         [] atom.kind = "Dyn" ->
              Outcome(Ok(TraitRef(Dyn(trait_decl_ref), trait_decl_ref)), ctx)
         [] atom.kind = "Builtin" ->
              Outcome(Ok(TraitRef(BuiltinOrAuto(trait_decl_ref), trait_decl_ref)), ctx)
         [] OTHER -> error_atom(ctx, atom.msg, trait_decl_ref)

\* on_aux_error, but the error is handed on to the caller.
on_aux_error_propagate(ctx, err, trait_decl_ref) == Outcome(err, ctx)

\* The `Err(err)` arm of translate_trait_impl_expr.
on_aux_error(ctx, err, trait_decl_ref) ==
    IF ~ctx.continue_on_failure
    THEN Outcome(Aborted(<<"Error during trait resolution: ", err[2]>>), ctx)
    ELSE Outcome(Ok(TraitRef(Unknown(err[2]), trait_decl_ref)),
                 span_err(ctx, <<"Error during trait resolution: ", err[2]>>))

\* translate_trait_impl_expr(span, impl_expr)
translate_trait_impl_expr(ctx, expr) ==
    LET matched(r, trait_decl_ref) ==
            IF r.res[1] = "Err" THEN on_aux_error(r.ctx, r.res, trait_decl_ref) ELSE r
        after_decl(decl) ==
            IF ~is_ok(decl.res) THEN decl
            ELSE CHOOSE out \in
                   {matched(r, decl.res[2]) :
                      r \in {translate_trait_impl_expr_aux(decl.ctx, expr, decl.res[2])}} :
                   TRUE
    IN CHOOSE out \in
           {after_decl(decl) : decl \in {translate_trait_decl_ref(ctx, expr.trait)}} : TRUE

----------------------------------------------------------------------------
(* register_predicates and register_predicate (translate_predicates.rs) *)

\* PredicateLocation
Base == <<"Base">>
Parent == <<"Parent">>
Item(item_name) == <<"Item", item_name>>

\* The kinds of hax::ClauseKind and hax::PredicateKind that end in
\* error_or_panic!.
RejectedKinds ==
    {"WellFormed", "ConstEvaluatable", "AliasRelate", "Ambiguous", "Coerce",
     "ConstEquate", "DynCompatible", "NormalizesTo", "Subtype"}

\* The text of the error of a rejected kind.
RejectedMsg(kind) ==
    CASE kind = "WellFormed" -> <<"Well-formedness clauses are unsupported">>
      [] kind = "ConstEvaluatable" -> <<"Unsupported clause: ", kind>>
      [] OTHER -> <<"Unsupported predicate: ", kind>>

\* is_trait_pred, but every predicate is taken for a trait predicate.
is_trait_pred_any(pred) == TRUE

\* matches!(pred.kind.value, PredicateKind::Clause(ClauseKind::Trait(_)))
is_trait_pred(pred) == pred.kind = "Trait"

\* translate_region(span, region) and translate_ty(span, ty): the
\* translation, or an error on a region or type the model cannot represent.
translate_region(ctx, region) ==
    IF region = "bad_region" THEN error_or_panic(ctx, <<"unsupported region">>)
    ELSE Outcome(Ok(<<"Region", region>>), ctx)

translate_ty(ctx, ty) ==
    IF ty = "bad_ty" THEN error_or_panic(ctx, <<"unsupported type">>)
    ELSE Outcome(Ok(<<"Ty", ty>>), ctx)

\* translate_trait_predicate(span, trait_pred), with translate_trait_ref
translate_trait_predicate(ctx, trait_pred) ==
    IF ~trait_pred.is_positive
    THEN Outcome(Aborted(<<"assertion failed: trait_pred.is_positive">>), ctx)
    ELSE LET c1 == register_trait_decl(ctx, trait_pred.def_id)
             generics == translate_generic_args(c1, trait_pred.generic_args)
         IN IF is_ok(generics.res)
            THEN Outcome(Ok(TraitDeclRef(trait_decl_id(c1, trait_pred.def_id),
                                         generics.res[2])), generics.ctx)
            ELSE generics

TraitClause(clause_id, origin, trait_) ==
    [clause_id |-> clause_id, origin |-> origin, trait_ |-> trait_]

\* push_with, but the ids are counted from one.
push_with_from_one(v, origin, trait_) == Append(v, TraitClause(Len(v) + 1, origin, trait_))

\* Vector::push_with(f): the new element is built from the index it gets,
\* the number of slots of the vector.
push_with(v, origin, trait_) == Append(v, TraitClause(Len(v), origin, trait_))

\* ctx.item_trait_clauses.entry(item_name).or_default()
entry_or_default(m, item_name) == IF item_name \in DOMAIN m THEN m[item_name] ELSE <<>>

\* push_trait_clause, but the clause is pushed nowhere.
push_trait_clause_nowhere(ctx, loc, origin, trait_) == ctx

\* push_trait_clause, but the clause always goes to the generic parameters.
push_trait_clause_to_base(ctx, loc, origin, trait_) ==
    [ctx EXCEPT !.generic_params.trait_clauses = push_with(@, origin, trait_)]

\* Lines 103-118: the clause is pushed to the list the location names.
push_trait_clause(ctx, loc, origin, trait_) ==
    CASE loc = Base ->
           [ctx EXCEPT !.generic_params.trait_clauses = push_with(@, origin, trait_)]
      [] loc = Parent ->
           [ctx EXCEPT !.parent_trait_clauses = push_with(@, origin, trait_)]
      [] OTHER ->
           [ctx EXCEPT !.item_trait_clauses =
               [n \in DOMAIN @ \cup {loc[2]} |->
                   IF n = loc[2]
                   THEN push_with(entry_or_default(@, loc[2]), origin, trait_)
                   ELSE @[n]]]

\* unsupported_predicate, but the predicate is passed over.
unsupported_predicate_dropped(ctx, kind) == Outcome(Ok(<<>>), ctx)

\* Lines 168-188: the arms of the kinds the model does not support.
unsupported_predicate(ctx, kind) == error_or_panic(ctx, RejectedMsg(kind))

\* The closure of register_predicate, run under the binder of the predicate.
register_predicate_closure(ctx, pred, origin, loc) ==
    LET regions == ctx.region_vars[1]
    IN CASE pred.kind = "Trait" ->
              LET pushed(t) ==
                      IF is_ok(t.res)
                      THEN Outcome(Ok(<<>>),
                                   push_trait_clause(t.ctx, loc, origin,
                                                     RegionBinder(regions, t.res[2])))
                      ELSE t
              IN CHOOSE out \in
                     {pushed(t) : t \in {translate_trait_predicate(ctx, pred)}} : TRUE
         [] pred.kind = "RegionOutlives" ->
              LET r0 == translate_region(ctx, pred.lhs)
                  r1 == translate_region(r0.ctx, pred.rhs)
              IN IF ~is_ok(r0.res) THEN r0
                 ELSE IF ~is_ok(r1.res) THEN r1
                 ELSE Outcome(Ok(<<>>),
                        [r1.ctx EXCEPT !.generic_params.regions_outlive =
                            Append(@, RegionBinder(regions, <<r0.res[2], r1.res[2]>>))])
         [] pred.kind = "TypeOutlives" ->
              LET ty == translate_ty(ctx, pred.lhs)
                  r == translate_region(ty.ctx, pred.rhs)
              IN IF ~is_ok(ty.res) THEN ty
                 ELSE IF ~is_ok(r.res) THEN r
                 ELSE Outcome(Ok(<<>>),
                        [r.ctx EXCEPT !.generic_params.types_outlive =
                            Append(@, RegionBinder(regions, <<ty.res[2], r.res[2]>>))])
         [] pred.kind = "Projection" ->
              LET pushed(trait_ref) ==
                      LET ty == translate_ty(trait_ref.ctx, pred.ty)
                      IN IF ~is_ok(trait_ref.res) THEN trait_ref
                         ELSE IF ~is_ok(ty.res) THEN ty
                         ELSE Outcome(Ok(<<>>),
                                [ty.ctx EXCEPT !.generic_params.trait_type_constraints =
                                    Append(@, RegionBinder(regions,
                                                 [trait_ref |-> trait_ref.res[2],
                                                  type_name |-> pred.assoc_item,
                                                  ty |-> ty.res[2]]))])
              IN CHOOSE out \in
                     {pushed(trait_ref) :
                        trait_ref \in {translate_trait_impl_expr(ctx, pred.impl_expr)}} :
                     TRUE
         [] pred.kind = "ConstArgHasType" -> Outcome(Ok(<<>>), ctx)
         [] OTHER -> unsupported_predicate(ctx, pred.kind)

\* register_predicate, but the closure is run in a scope that is left open.
register_predicate_scope_left_open(ctx, pred, origin, loc) ==
    LET returned(r) == IF is_ok(r.res) THEN Outcome(Ok(<<>>), r.ctx) ELSE r
    IN CHOOSE out \in
           {returned(r) :
              r \in {register_predicate_closure(
                        push_regions_group(ctx, pred.bound_vars), pred, origin, loc)}} : TRUE

\* register_predicate(pred, hspan, origin, location)
register_predicate(ctx, pred, origin, loc) ==
    LET returned(r) == IF is_ok(r.res) THEN Outcome(Ok(<<>>), r.ctx) ELSE r
    IN CHOOSE out \in
           {returned(r) :
              r \in {pop_regions_group(
                        register_predicate_closure(
                            push_regions_group(ctx, pred.bound_vars), pred, origin, loc),
                        pred.bound_vars)}} : TRUE

----------------------------------------------------------------------------
(* remove_unused_self_clause.rs: removal of the unused `Self` clause *)

\* AnyTransId
FunId(i) == <<"Fun", i>>
GlobalId(i) == <<"Global", i>>

\* GenericsSource: the item the arguments are meant for, if any.
ItemSource(any_id) == <<"Item", any_id>>
BuiltinSource == <<"Builtin">>

GenericArgs(target, trait_refs) == [target |-> target, trait_refs |-> trait_refs]

\* The largest usize, the value 0 - 1 wraps to in a build without overflow
\* checks (stands for 2^64 - 1).
UsizeMax == 2147483647

\* TraitClauseId::from_raw(0)
self_clause_id == 0

\* The TraitClauseId values a traversal meets in a TraitRefKind: the clause
\* of Clause and the clause index of ParentClause and ItemClause.
RECURSIVE clause_ids_of_kind(_)
clause_ids_of_kind(kind) ==
    CASE kind[1] = "Clause" -> {kind[2]}
      [] kind[1] = "ParentClause" -> clause_ids_of_kind(kind[2]) \cup {kind[4]}
      [] kind[1] = "ItemClause" -> clause_ids_of_kind(kind[2]) \cup {kind[5]}
      [] OTHER -> {}

kinds_of_args(args) ==
    UNION {{args[a].trait_refs[k].kind : k \in DOMAIN args[a].trait_refs} : a \in DOMAIN args}

\* The TraitClauseId values of an item outside its clause declarations.
clause_ids_outside_clauses(item) ==
    UNION {clause_ids_of_kind(kind) : kind \in kinds_of_args(item.args)}

\* The TraitClauseId values inside the declarations of the clauses v, the
\* clause_id fields left out.
clause_ids_inside_clauses(v) ==
    UNION {UNION {clause_ids_of_kind(v[k].trait_.skip_binder.generics[j]) :
                    j \in DOMAIN v[k].trait_.skip_binder.generics} : k \in DOMAIN v}

\* uses_clause, but a function without body is explored like the others.
uses_clause_opaque_explored(fun, clause_id) ==
    clause_id \in clause_ids_outside_clauses(fun)

\* fun.drive(&mut UsesClauseVisitor(clause_id)) = Break(FoundClause): the
\* body is opaque, or the id is met outside the clause declarations.
uses_clause(fun, clause_id) ==
    IF fun.opaque THEN TRUE
    ELSE clause_id \in clause_ids_outside_clauses(fun)

\* The functions the first loop explores: the methods of each trait
\* declaration, then the initializers of its associated constants.
funs_to_explore(c) ==
    LET of_decl(tdecl) ==
            LET consts == SelectSeq(tdecl.const_defaults, LAMBDA g : g \in DOMAIN c.global_decls)
                inits == [k \in DOMAIN consts |-> c.global_decls[consts[k]].init]
            IN SelectSeq(tdecl.methods \o inits, LAMBDA f : f \in DOMAIN c.fun_decls)
    IN IF c.trait_decls = <<>> THEN <<>> ELSE of_decl(c.trait_decls[1])

\* The ids the first loop adds for a function that does not use the clause.
ids_of_unused(fun) ==
    {FunId(fun.def_id)}
    \cup (IF fun.is_global_initializer = None THEN {}
          ELSE {GlobalId(unwrap(fun.is_global_initializer))})

\* Vector::remove_and_shift_ids(id): the element of index id is removed and
\* the elements after it move down by one index.
remove_and_shift_ids(v, i) ==
    IF i + 1 \in DOMAIN v
    THEN [k \in 1..(Len(v) - 1) |-> IF k <= i THEN v[k] ELSE v[k + 1]]
    ELSE v

\* TraitClauseId::from_usize(clause_id.index() - 1)
decrement(clause_id) == IF clause_id = 0 THEN UsizeMax ELSE clause_id - 1

RECURSIVE decrement_kind(_)
decrement_kind(kind) ==
    CASE kind[1] = "Clause" -> Clause(decrement(kind[2]))
      [] kind[1] = "ParentClause" ->
           ParentClause(decrement_kind(kind[2]), kind[3], decrement(kind[4]))
      [] kind[1] = "ItemClause" ->
           ItemClause(decrement_kind(kind[2]), kind[3], kind[4], decrement(kind[5]))
      [] OTHER -> kind

decrement_clause(clause) ==
    [clause EXCEPT !.clause_id = decrement(@),
                   !.trait_.skip_binder.generics =
                       [j \in DOMAIN @ |-> decrement_kind(@[j])]]

decrement_args(args) ==
    [a \in DOMAIN args |->
        [args[a] EXCEPT !.trait_refs =
            [k \in DOMAIN @ |-> [@[k] EXCEPT !.kind = decrement_kind(@)]]]]

\* renumber_item, but the ids of the item are left as they are.
renumber_item_ids_kept(item) == item

\* item.dyn_visit_mut(|clause_id| *clause_id = from_usize(clause_id.index() - 1))
renumber_item(item) ==
    [item EXCEPT !.generics.trait_clauses = [k \in DOMAIN @ |-> decrement_clause(@[k])],
                 !.args = decrement_args(@)]

\* remove_self_clause, but the clause list is left as it is.
remove_self_clause_kept(item) == item

\* The first statement of the body of the second loop.
remove_self_clause(item) ==
    [item EXCEPT !.generics.trait_clauses = remove_and_shift_ids(@, self_clause_id)]

\* The decrement meets an id equal to 0 and 0 - 1 is computed.
underflows(item) ==
    \/ \E k \in DOMAIN item.generics.trait_clauses :
          item.generics.trait_clauses[k].clause_id = 0
    \/ 0 \in clause_ids_inside_clauses(item.generics.trait_clauses)
    \/ 0 \in clause_ids_outside_clauses(item)

\* ctx.translated.get_item_mut(id)
has_item(c, any_id) ==
    IF any_id[1] = "Fun" THEN any_id[2] \in DOMAIN c.fun_decls
    ELSE any_id[2] \in DOMAIN c.global_decls

get_item(c, any_id) ==
    IF any_id[1] = "Fun" THEN c.fun_decls[any_id[2]] ELSE c.global_decls[any_id[2]]

set_item(c, any_id, item) ==
    IF any_id[1] = "Fun" THEN [c EXCEPT !.fun_decls[any_id[2]] = item]
    ELSE [c EXCEPT !.global_decls[any_id[2]] = item]

\* sweep_args, but the target of the arguments is not looked at.
sweep_args_any_target(args, pruned) ==
    [a \in DOMAIN args |->
        [args[a] EXCEPT !.trait_refs = remove_and_shift_ids(@, self_clause_id)]]

\* Lines 88-94 on the argument lists of one item.
sweep_args(args, pruned) ==
    [a \in DOMAIN args |->
        IF args[a].target[1] = "Item" /\ args[a].target[2] \in pruned
        THEN [args[a] EXCEPT !.trait_refs = remove_and_shift_ids(@, self_clause_id)]
        ELSE args[a]]

\* sweep, but no list is rewritten.
sweep_nothing(c, pruned) == c

\* ctx.translated.dyn_visit_mut(|args: &mut GenericArgs| ...)
sweep(c, pruned) ==
    [c EXCEPT !.fun_decls =
                  [i \in DOMAIN @ |-> [@[i] EXCEPT !.args = sweep_args(@, pruned)]],
              !.global_decls =
                  [i \in DOMAIN @ |-> [@[i] EXCEPT !.args = sweep_args(@, pruned)]]]

----------------------------------------------------------------------------
(* Input bodies *)

\* The terminators of an input body of n blocks.  A switch is listed once for
\* each pair of targets: the pass never looks at the order of the branches.
Terminators(n) ==
    {Return}
    \cup {Goto(t) : t \in 0..(n - 1)}
    \cup {Call(t) : t \in 0..(n - 1)}
    \cup {Switch(t1, t2) : t1 \in 0..(n - 1), t2 \in 0..(n - 1)}

SortedTerminators(n) == {t \in Terminators(n) : t[1] = "Switch" => t[2] <= t[3]}

\* Statements are named by numbers; block i holds (i + 1) % 3 statements, so
\* that bodies mix empty and non-empty statement lists.
statements_of(i) == [k \in 1..((i + 1) % 3) |-> 10 * i + k]

\* The pure linear chains B0 -> B1 -> ... -> Bn: block 0 is the entry, every
\* block but the last jumps to the next one, the last returns, every block
\* occurs once.
RECURSIVE chain_order(_, _, _)
chain_order(b, i, fuel) ==
    IF fuel = 0 THEN <<>>
    ELSE IF unwrap(b[i]).terminator[1] = "Goto"
         THEN <<i>> \o chain_order(b, unwrap(b[i]).terminator[2], fuel - 1)
         ELSE <<i>>

is_chain(b) ==
    LET n == Cardinality(DOMAIN b)
        order == chain_order(b, START_BLOCK_ID, n)
    IN /\ \A i \in DOMAIN b : b[i] # None
       /\ Len(order) = n
       /\ {order[k] : k \in 1..n} = DOMAIN b
       /\ unwrap(b[order[n]]).terminator \in {Return, Panic}

\* In a chain input block i holds lens[i] statements, 10*i + 1 .. 10*i + lens[i].
chain_statements(i, len) == [k \in 1..len |-> 10 * i + k]

\* The translator before any call, with the given options.
NewCtx(cof, eoi, decls) ==
    [continue_on_failure |-> cof, error_on_impl_expr_error |-> eoi,
     trait_decl_ids |-> decls, trait_impl_ids |-> <<>>,
     region_vars |-> << <<"'item">> >>, errors |-> <<>>,
     generic_params |-> [trait_clauses |-> <<>>, regions_outlive |-> <<>>,
                         types_outlive |-> <<>>, trait_type_constraints |-> <<>>],
     parent_trait_clauses |-> <<>>,
     item_trait_clauses |-> <<>>]

Pending == <<"Pending">>

NoImplExpr == [trait |-> [def_id |-> "Trait1", generic_args |-> GoodArgs, bound_vars |-> <<>>],
               impl |-> [kind |-> "Dyn"], args |-> <<>>]

\* The items that are translated side by side and share the type store.
Items == {1, 2}

\* The structuring pass is not running.
StructuringIdle ==
    /\ s_body = <<>>
    /\ s_out = None
    /\ s_pc = "idle"

\* The type store is empty and no item is interning.
TypeStoreIdle ==
    /\ store = <<>>
    /\ table = [hash \in {0, 1} |-> <<>>]
    /\ lock = None
    /\ h_pc = [item \in Items |-> "idle"]
    /\ h_kind = [item \in Items |-> None]
    /\ h_found = [item \in Items |-> {}]
    /\ h_log = {}

\* The comment pass is not running.
CommentsIdle ==
    /\ c_body = [body |-> <<>>, comments |-> <<>>]
    /\ c_body0 = [body |-> <<>>, comments |-> <<>>]
    /\ lines_covered_by_statement = <<>>
    /\ best_span_for_line = <<>>
    /\ comments_per_line = <<>>
    /\ c_pc = "idle"
    /\ c_i = 1

\* The pruning pass is not running.
PruningIdle ==
    /\ crate = <<>>
    /\ crate0 = <<>>
    /\ doesnt_use_self = {}
    /\ p_pc = "idle"
    /\ p_k = 1
    /\ p_todo = {}

\* No call of register_predicates is under way.
RegistrationIdle ==
    /\ preds = <<>>
    /\ location = <<"Base">>
    /\ r_pc = "idle"
    /\ r_i = 1
    /\ calls = 0
    /\ r_log = <<>>

TranslatorIdle ==
    /\ t_ctx = NewCtx(TRUE, FALSE, <<>>)
    /\ impl_expr = NoImplExpr
    /\ t_result = <<"Idle">>
    /\ RegistrationIdle
    /\ PruningIdle
    /\ CommentsIdle
    /\ TypeStoreIdle
    /\ StructuringIdle

InitTo(b, nm) ==
    /\ TranslatorIdle
    /\ options = [no_merge_goto_chains |-> nm]
    /\ body = b
    /\ body0 = b
    /\ body1 = b
    /\ antecedents = [i \in DOMAIN b |-> None]
    /\ idx = 0
    /\ id = 0
    /\ pc = "start"
    /\ round = 1
    /\ merges = 0
    /\ hops = 0

\* All bodies of at most MaxBlocks blocks whose targets name existing blocks.
Init ==
    \E n \in 1..MaxBlocks :
    \E terms \in [0..(n - 1) -> SortedTerminators(n)] :
    \E nm \in BOOLEAN :
        InitTo([i \in 0..(n - 1) |-> Some(BlockData(statements_of(i), terms[i]))], nm)

\* All pure linear chains of at most MaxBlocks blocks: every numbering of
\* B1..Bn and every choice of zero, one or two statements per block.
InitChain ==
    \E n \in 1..MaxBlocks :
    \E terms \in [0..(n - 1) -> {Return, Panic} \cup {Goto(t) : t \in 1..(n - 1)}] :
    \E lens \in [0..(n - 1) -> 0..2] :
    \E nm \in BOOLEAN :
        /\ is_chain([i \in 0..(n - 1) |-> Some(BlockData(<<>>, terms[i]))])
        /\ InitTo([i \in 0..(n - 1) |->
                      Some(BlockData(chain_statements(i, lens[i]), terms[i]))], nm)

----------------------------------------------------------------------------
(* Input witnesses *)

TraitDefs == {"Trait1", "Trait2", "Trait3"}

\* hax::ImplExprPathChunk
PathElems ==
    {[kind |-> "Parent", predicate |-> p, index |-> i] :
        p \in TraitDefs, i \in 0..1}
    \cup {[kind |-> "AssocItem", item |-> "AssocName", generic_args |-> g,
           predicate |-> p, index |-> i] :
        g \in {<<>>, <<"T">>}, p \in TraitDefs, i \in 0..1}

Paths == UNION {[1..n -> PathElems] : n \in 0..MaxPath}

\* hax::ImplExprAtom
Atoms ==
    {[kind |-> "Concrete", id |-> "Impl1", generics |-> g] : g \in {GoodArgs, BadArgs}}
    \cup {[kind |-> "SelfImpl", trait |-> t, path |-> path] : t \in TraitDefs, path \in Paths}
    \cup {[kind |-> "LocalBound", index |-> i, trait |-> t, path |-> path] :
            i \in {2}, t \in TraitDefs, path \in Paths}
    \cup {[kind |-> "Dyn"], [kind |-> "Builtin"]}
    \cup {[kind |-> "Error", msg |-> <<"no impl found">>]}

\* The trait the witness is a witness of: the trait of the predicate of the
\* last path element, the trait of the root when the path is empty.
resolved_trait(atom, other) ==
    IF atom.kind \in {"SelfImpl", "LocalBound"}
    THEN IF atom.path = <<>> THEN atom.trait
         ELSE atom.path[Len(atom.path)].predicate
    ELSE other

InitTranslator ==
    \E atom \in Atoms :
    \E other \in {"Trait1", "Trait2"} :
    \E args \in {GoodArgs, BadArgs} :
    \E bound \in {<<>>, <<"'a">>} :
    \E cof \in BOOLEAN, eoi \in BOOLEAN :
        /\ impl_expr = [trait |-> [def_id |-> resolved_trait(atom, other),
                                   generic_args |-> args, bound_vars |-> bound],
                        impl |-> atom,
                        args |-> <<>>]
        /\ (atom.kind \in {"SelfImpl", "LocalBound"} => other = "Trait1")
        /\ t_ctx = NewCtx(cof, eoi, <<"Trait3">>)
        /\ t_result = Pending
        /\ RegistrationIdle
        /\ PruningIdle
        /\ CommentsIdle
        /\ TypeStoreIdle
        /\ StructuringIdle
        /\ options = [no_merge_goto_chains |-> TRUE]
        /\ body = (0 :> Some(BlockData(<<>>, Return)))
        /\ body0 = body
        /\ body1 = body
        /\ antecedents = (0 :> None)
        /\ idx = 0
        /\ id = 0
        /\ pc = "idle"
        /\ round = 1
        /\ merges = 0
        /\ hops = 0

----------------------------------------------------------------------------
(* The translator *)

\* A call of translate_trait_impl_expr.
TranslateTraitImplExpr ==
    /\ t_result = Pending
    /\ \E r \in {translate_trait_impl_expr(t_ctx, impl_expr)} :
          /\ t_result' = r.res
          /\ t_ctx' = r.ctx
    /\ UNCHANGED impl_expr
    /\ UNCHANGED <<gvars, rvars, pvars, cvars, hvars, svars>>

TranslatorNext == TranslateTraitImplExpr

TranslatorSpec == InitTranslator /\ [][TranslatorNext]_vars

----------------------------------------------------------------------------
(* register_predicates, step by step *)

\* The goto pass is not running.
PassIdle ==
    /\ options = [no_merge_goto_chains |-> TRUE]
    /\ body = (0 :> Some(BlockData(<<>>, Return)))
    /\ body0 = body
    /\ body1 = body
    /\ antecedents = (0 :> None)
    /\ idx = 0
    /\ id = 0
    /\ pc = "idle"
    /\ round = 1
    /\ merges = 0
    /\ hops = 0

\* PredicateOrigin of the calls.
Origin == "WhereClauseOnFn"

ItemNames == {"ItemA", "ItemB"}

Locations == {Base, Parent} \cup {Item(n) : n \in ItemNames}

TraitPred(def_id, generic_args, is_positive, bound_vars) ==
    [kind |-> "Trait", def_id |-> def_id, generic_args |-> generic_args,
     is_positive |-> is_positive, bound_vars |-> bound_vars]

ProjectionPred(atom) ==
    [kind |-> "Projection",
     impl_expr |-> [trait |-> [def_id |-> "Trait1", generic_args |-> GoodArgs,
                               bound_vars |-> <<>>],
                    impl |-> atom, args |-> <<>>],
     assoc_item |-> "AssocName", ty |-> "usize", bound_vars |-> <<>>]

\* Predicates of the kinds register_predicate translates, none of which fails.
SupportedPreds ==
    {TraitPred("Trait1", GoodArgs, TRUE, <<>>),
     TraitPred("Trait2", GoodArgs, TRUE, <<"'a">>),
     [kind |-> "RegionOutlives", lhs |-> "'a", rhs |-> "'b", bound_vars |-> <<>>],
     [kind |-> "TypeOutlives", lhs |-> "T", rhs |-> "'a", bound_vars |-> <<"'c">>],
     ProjectionPred([kind |-> "Dyn"]),
     [kind |-> "ConstArgHasType", bound_vars |-> <<>>]}

\* Predicates of every kind, with those whose translation fails.
AnyPreds ==
    SupportedPreds
    \cup {TraitPred("Trait1", BadArgs, TRUE, <<"'a">>),
          TraitPred("Trait2", GoodArgs, FALSE, <<>>),
          [kind |-> "TypeOutlives", lhs |-> "bad_ty", rhs |-> "'a", bound_vars |-> <<>>],
          ProjectionPred([kind |-> "Error", msg |-> <<"no impl found">>]),
          [ProjectionPred([kind |-> "Dyn"]) EXCEPT
              !.bound_vars = <<"'c">>,
              !.impl_expr.trait.bound_vars = <<"'a">>],
          [ProjectionPred([kind |-> "Dyn"]) EXCEPT
              !.bound_vars = <<"'c">>,
              !.impl_expr.trait.bound_vars = <<"'a">>,
              !.impl_expr.trait.generic_args = BadArgs]}
    \cup {[kind |-> k, bound_vars |-> <<"'a">>] : k \in RejectedKinds}

\* The first call of register_predicates is about to begin.
InitCall(ps, loc, cof) ==
    /\ PassIdle
    /\ PruningIdle
    /\ CommentsIdle
    /\ TypeStoreIdle
    /\ StructuringIdle
    /\ t_ctx = NewCtx(cof, FALSE, <<>>)
    /\ impl_expr = NoImplExpr
    /\ t_result = <<"Idle">>
    /\ preds = ps
    /\ location = loc
    /\ r_pc = "pass1"
    /\ r_i = 1
    /\ calls = 1
    /\ r_log = <<>>

\* Lists of predicates of every kind.
InitRegister ==
    \E n \in 0..MaxAnyPreds :
    \E ps \in [1..n -> AnyPreds] :
    \E loc \in Locations :
    \E cof \in BOOLEAN :
        InitCall(ps, loc, cof)

\* Lists of predicates of the supported kinds.  None of them fails, so that
\* continue_on_failure is never looked at.
InitOrder ==
    \E n \in 0..MaxPreds :
    \E ps \in [1..n -> SupportedPreds] :
    \E loc \in Locations :
        InitCall(ps, loc, TRUE)

\* One call of register_predicate from a loop of register_predicates: on
\* success the loop goes on, an error is returned at once (`?`).
CallRegisterPredicate ==
    \E r \in {register_predicate(t_ctx, preds[r_i], Origin, location)} :
       /\ t_ctx' = r.ctx
       /\ r_log' = Append(r_log, r_i)
       /\ IF is_ok(r.res)
          THEN r_i' = r_i + 1 /\ UNCHANGED r_pc
          ELSE /\ r_pc' = IF r.res[1] = "Panic" THEN "panic" ELSE "err"
               /\ UNCHANGED r_i

\* An iteration of a loop on a predicate the loop passes over.
PassOver ==
    /\ r_i' = r_i + 1
    /\ UNCHANGED <<t_ctx, r_log, r_pc>>

\* One iteration of the first loop (lines 21-28).
FirstPass ==
    /\ r_pc = "pass1"
    /\ r_i <= Len(preds)
    /\ IF is_trait_pred(preds[r_i]) THEN CallRegisterPredicate ELSE PassOver
    /\ UNCHANGED <<impl_expr, t_result, preds, location, calls, gvars, pvars, cvars, hvars, svars>>

\* The first loop is over, the second begins.
FirstPassEnd ==
    /\ r_pc = "pass1"
    /\ r_i > Len(preds)
    /\ r_pc' = "pass2"
    /\ r_i' = 1
    /\ UNCHANGED <<tvars, preds, location, calls, r_log, gvars, pvars, cvars, hvars, svars>>

\* One iteration of the second loop (lines 29-36).
SecondPass ==
    /\ r_pc = "pass2"
    /\ r_i <= Len(preds)
    /\ IF ~is_trait_pred(preds[r_i]) THEN CallRegisterPredicate ELSE PassOver
    /\ UNCHANGED <<impl_expr, t_result, preds, location, calls, gvars, pvars, cvars, hvars, svars>>

\* The second loop is over: register_predicates returns Ok(()).
SecondPassEnd ==
    /\ r_pc = "pass2"
    /\ r_i > Len(preds)
    /\ r_pc' = "ok"
    /\ UNCHANGED <<tvars, preds, location, r_i, calls, r_log, gvars, pvars, cvars, hvars, svars>>

\* register_predicates is called again on the same context, with the same
\* list and any location.
CallAgain ==
    /\ r_pc = "ok"
    /\ calls < MaxCalls
    /\ \E loc \in Locations : location' = loc
    /\ r_pc' = "pass1"
    /\ r_i' = 1
    /\ calls' = calls + 1
    /\ r_log' = <<>>
    /\ UNCHANGED <<tvars, preds, gvars, pvars, cvars, hvars, svars>>

RegisterNext ==
    \/ FirstPass
    \/ FirstPassEnd
    \/ SecondPass
    \/ SecondPassEnd
    \/ CallAgain

RegisterSpec == InitRegister /\ [][RegisterNext]_vars

OrderSpec == InitOrder /\ [][RegisterNext]_vars

----------------------------------------------------------------------------
(* The crates handed to the pruning pass, and the pass step by step *)

\* The clauses of an item as registration leaves them: n clauses pushed in
\* turn, the first being `Self: Trait` for a method or an associated
\* constant.  With `mention` the declaration of the second clause names
\* clause 0 in its generics (as in `T: From<Self::A>`).
RECURSIVE registered_clauses(_, _)
registered_clauses(n, mention) ==
    IF n = 0 THEN <<>>
    ELSE push_with(registered_clauses(n - 1, mention), Origin,
                   RegionBinder(<<>>, TraitDeclRef(n - 1,
                        IF mention /\ n = 2 THEN <<Clause(self_clause_id)>> ELSE <<>>)))

\* What a generic-argument site of an item with n clauses passes in each of
\* its slots.
SlotChoices == {"impl", "self", "last", "parent"}

\* The parent clause a ParentClause witness takes: an index in the parent
\* clauses of the trait of the clause, not in the clauses of the item.
ParentIndex == 2

slot_kind(w, n) ==
    CASE w = "impl" -> TraitImpl(0, <<>>)
      [] w = "self" -> Clause(self_clause_id)
      [] w = "last" -> Clause(n - 1)
      [] OTHER -> ParentClause(Clause(n - 1), 0, ParentIndex)

slot_allowed(w, n) ==
    CASE w = "impl" -> TRUE
      [] w = "self" -> n >= 1
      [] OTHER -> n >= 2

\* A list of `arity` witnesses, all of the kind w; the k-th is a witness of
\* the k-th clause of the target, whose trait is the trait k - 1.
witnesses(arity, w, n) ==
    [k \in 1..arity |->
        TraitRef(slot_kind(w, n), RegionBinder(<<>>, TraitDeclRef(k - 1, <<>>)))]

FunDecl(def_id, trait_clauses, opaque, args, is_global_initializer) ==
    [def_id |-> def_id, generics |-> [trait_clauses |-> trait_clauses],
     opaque |-> opaque, args |-> args, is_global_initializer |-> is_global_initializer]

GlobalDecl(def_id, trait_clauses, init, args) ==
    [def_id |-> def_id, generics |-> [trait_clauses |-> trait_clauses],
     init |-> init, args |-> args]

TraitDecl(methods, const_defaults) == [methods |-> methods, const_defaults |-> const_defaults]

\* What the second function of the crate is: a method of the trait, a
\* function outside the trait, or the initializer of an associated constant.
FunKinds == {"method", "free", "const_init"}

\* The targets of a generic-argument site.
SiteTargets == {"fun0", "fun1", "global0", "builtin"}

\* A crate of two functions: function 0 is a method of the one trait
\* declaration, function 1 is of the kind k1; with "const_init" there is a
\* global 0, with the generics of its initializer, that names clause 0 in
\* its own declaration when gm holds.  Function i has n_i clauses (the second
\* naming clause 0 when m_i holds), is opaque when o_i holds, and has one
\* site of target t_i whose witnesses are of the kind w_i.  Only function 0
\* is ever opaque: function 1 is there to be pruned or to be left alone.
MakeCrate(n0, m0, o0, t0, w0, k1, n1, m1, o1, t1, w1, gm) ==
    LET arity(t) == CASE t = "fun0" -> n0
                      [] t = "fun1" -> n1
                      [] t = "global0" -> n1
                      [] OTHER -> 1
        source(t) == CASE t = "fun0" -> ItemSource(FunId(0))
                       [] t = "fun1" -> ItemSource(FunId(1))
                       [] t = "global0" -> ItemSource(GlobalId(0))
                       [] OTHER -> BuiltinSource
        site(t, w, n) == <<GenericArgs(source(t), witnesses(arity(t), w, n))>>
    IN [trait_decls |->
            <<TraitDecl(IF k1 = "method" THEN <<0, 1>> ELSE <<0>>,
                        IF k1 = "const_init" THEN <<0>> ELSE <<>>)>>,
        fun_decls |->
            (0 :> FunDecl(0, registered_clauses(n0, m0), o0, site(t0, w0, n0), None)
             @@ 1 :> FunDecl(1, registered_clauses(n1, m1), o1, site(t1, w1, n1),
                             IF k1 = "const_init" THEN Some(0) ELSE None)),
        global_decls |->
            IF k1 = "const_init"
            THEN (0 :> GlobalDecl(0, registered_clauses(n1, m1), 1,
                                  IF gm THEN <<GenericArgs(BuiltinSource,
                                                           witnesses(1, "self", n1))>>
                                  ELSE <<>>))
            ELSE <<>>]

\* The pass is about to run on a crate.  The list of function 0 is meant
\* for any item or for none, the list of function 1 for function 0 or for
\* none.
InitPrune ==
    \E n0 \in 1..MaxClauses, n1 \in 0..MaxClauses :
    \E m0 \in BOOLEAN, m1 \in BOOLEAN, o0 \in BOOLEAN, gm \in BOOLEAN :
    \E k1 \in FunKinds :
    \E t0 \in SiteTargets, t1 \in {"fun0", "builtin"} :
    \E w0 \in SlotChoices, w1 \in SlotChoices :
        /\ (k1 # "free" => n1 >= 1)
        /\ (m0 => n0 >= 2) /\ (m1 => n1 >= 2 /\ k1 # "free")
        /\ (gm => k1 = "const_init")
        /\ (t0 = "global0" => k1 = "const_init")
        /\ slot_allowed(w0, n0) /\ slot_allowed(w1, n1)
        /\ crate = MakeCrate(n0, m0, o0, t0, w0, k1, n1, m1, FALSE, t1, w1, gm)
        /\ crate0 = crate
        /\ doesnt_use_self = {}
        /\ p_pc = "explore"
        /\ p_k = 1
        /\ p_todo = {}
        /\ PassIdle
        /\ t_ctx = NewCtx(TRUE, FALSE, <<>>)
        /\ impl_expr = NoImplExpr
        /\ t_result = <<"Idle">>
        /\ RegistrationIdle
        /\ CommentsIdle
        /\ TypeStoreIdle
        /\ StructuringIdle

\* One iteration of the first loop (lines 61-71): a function is explored.
Explore ==
    /\ p_pc = "explore"
    /\ p_k <= Len(funs_to_explore(crate))
    /\ LET fun == crate.fun_decls[funs_to_explore(crate)[p_k]]
       IN doesnt_use_self' =
             IF uses_clause(fun, self_clause_id) THEN doesnt_use_self
             ELSE doesnt_use_self \cup ids_of_unused(fun)
    /\ p_k' = p_k + 1
    /\ UNCHANGED <<crate, p_pc, p_todo, crate0, gvars, tvars, rvars, cvars, hvars, svars>>

\* The first loop is over, the second begins on doesnt_use_self.
ExploreEnd ==
    /\ p_pc = "explore"
    /\ p_k > Len(funs_to_explore(crate))
    /\ p_pc' = "prune"
    /\ p_todo' = doesnt_use_self
    /\ UNCHANGED <<crate, doesnt_use_self, p_k, crate0, gvars, tvars, rvars, cvars, hvars, svars>>

\* One iteration of the second loop (lines 75-85), on any id not yet
\* visited (the order of a HashSet).  When the decrement meets an id equal
\* to 0 the subtraction overflows: the run aborts, or the id wraps.
PruneItem ==
    /\ p_pc = "prune"
    /\ \E any_id \in p_todo :
          /\ p_todo' = p_todo \ {any_id}
          /\ IF ~has_item(crate, any_id)
             THEN UNCHANGED <<crate, p_pc>>
             ELSE \E item \in {remove_self_clause(get_item(crate, any_id))} :
                    IF underflows(item)
                    THEN \/ /\ crate' = set_item(crate, any_id, item)
                            /\ p_pc' = "panic"
                         \/ /\ crate' = set_item(crate, any_id, renumber_item(item))
                            /\ UNCHANGED p_pc
                    ELSE /\ crate' = set_item(crate, any_id, renumber_item(item))
                         /\ UNCHANGED p_pc
    /\ UNCHANGED <<doesnt_use_self, p_k, crate0, gvars, tvars, rvars, cvars, hvars, svars>>

\* The second loop is over.
PruneEnd ==
    /\ p_pc = "prune"
    /\ p_todo = {}
    /\ p_pc' = "sweep"
    /\ UNCHANGED <<crate, doesnt_use_self, p_k, p_todo, crate0, gvars, tvars, rvars, cvars, hvars, svars>>

\* Lines 88-94: the generic arguments meant for the pruned items.
Sweep ==
    /\ p_pc = "sweep"
    /\ crate' = sweep(crate, doesnt_use_self)
    /\ p_pc' = "done"
    /\ UNCHANGED <<doesnt_use_self, p_k, p_todo, crate0, gvars, tvars, rvars, cvars, hvars, svars>>

PruneNext ==
    \/ Explore
    \/ ExploreEnd
    \/ PruneItem
    \/ PruneEnd
    \/ Sweep

PruneSpec == InitPrune /\ [][PruneNext]_vars

\* The two phases that write clause lists: a run registers the predicates
\* of an item, or prunes the `Self` clauses of a translated crate.
InitClauseLists == InitOrder \/ InitPrune

ClauseListsNext == RegisterNext \/ PruneNext

ClauseListsSpec == InitClauseLists /\ [][ClauseListsNext]_vars

----------------------------------------------------------------------------
(* recover_body_comments: Transform::transform_body *)

Loc(line, col) == [line |-> line, col |-> col]

Span(beg, end) == [beg |-> beg, end |-> end]

\* A statement of the structured body, as far as the pass looks at it.
Statement(span, content, comments_before) ==
    [span |-> span, content |-> content, comments_before |-> comments_before]

\* `a > b` on Loc: by line, then by column.
loc_gt(x, y) == x.line > y.line \/ (x.line = y.line /\ x.col > y.col)

max(x, y) == IF x >= y THEN x ELSE y

\* HashMap::remove, as a map.
map_remove(m, key) == [k \in DOMAIN m \ {key} |-> m[k]]

\* HashMap::insert, as a map.
map_insert(m, key, value) == (key :> value) @@ m

\* The closure of the first traversal (lines 29-34).
cover_line(covered, st) ==
    LET line == st.span.beg.line
        end_line == IF line \in DOMAIN covered THEN covered[line] ELSE line
    IN map_insert(covered, line, max(end_line, st.span.end.line))

\* The test of lines 52-54: the span starts earlier than the best one so far,
\* or at the same column and ends later.
better_span(span, best_span) ==
    \/ span.beg.col < best_span.beg.col
    \/ (span.beg.col = best_span.beg.col /\ loc_gt(span.end, best_span.end))

\* The closure of the second traversal (lines 43-61).
best_span(best, st) ==
    LET line == st.span.beg.line
    IN IF st.content = "FakeRead" THEN best
       ELSE IF line \notin DOMAIN best THEN map_insert(best, line, st.span)
       ELSE IF better_span(st.span, best[line]) THEN map_insert(best, line, st.span)
       ELSE best

\* `.map(|(loc, comments)| (loc.line, comments)).collect()` of lines 64-69: a
\* later entry for a line replaces an earlier one.
RECURSIVE collect_from(_, _, _)
collect_from(comments, k, m) ==
    IF k > Len(comments) THEN m
    ELSE collect_from(comments, k + 1, map_insert(m, comments[k][1].line, comments[k][2]))

collect(comments) == collect_from(comments, 1, <<>>)

\* The test of lines 73-76.
has_best_span(best, st) ==
    /\ st.span.beg.line \in DOMAIN best
    /\ best[st.span.beg.line] = st.span

\* assign_comments, but the comments of the line stay in the map.
assign_comments_not_removed(best, per_line, st) ==
    IF has_best_span(best, st)
    THEN [st |-> [st EXCEPT !.comments_before =
                        IF st.span.beg.line \in DOMAIN per_line
                        THEN per_line[st.span.beg.line] ELSE <<>>],
          per_line |-> per_line]
    ELSE [st |-> st, per_line |-> per_line]

\* The closure of the third traversal (lines 72-81): the statement and the
\* map after it.
assign_comments(best, per_line, st) ==
    IF has_best_span(best, st)
    THEN [st |-> [st EXCEPT !.comments_before =
                        IF st.span.beg.line \in DOMAIN per_line
                        THEN per_line[st.span.beg.line] ELSE <<>>],
          per_line |-> map_remove(per_line, st.span.beg.line)]
    ELSE [st |-> st, per_line |-> per_line]

\* The spans of the statements of the inputs: on line 1 from column 0 to the
\* end of the line, from column 0 into line 2, and from column 4; on line 2
\* from column 0.
StmtSpans ==
    {Span(Loc(1, 0), Loc(1, 9)), Span(Loc(1, 0), Loc(2, 2)),
     Span(Loc(1, 4), Loc(1, 9)), Span(Loc(2, 0), Loc(2, 9))}

\* The statements of the inputs.  A fake read has the span of the `let` it
\* follows.  prior is the comment list the statement starts with.
StmtShapes(prior) ==
    {Statement(sp, "Assign", prior) : sp \in StmtSpans}
        \cup {Statement(Span(Loc(1, 0), Loc(2, 2)), "FakeRead", prior)}

\* The comment list every statement of a body may carry before the pass.
PriorComments == <<0>>

\* The lines comments are recorded for: line 3 starts no statement.
CommentLines == 1..3

\* The k-th entry of b.comments holds the one comment k.
CommentLists ==
    UNION {{[k \in 1..n |-> <<Loc(ls[k], 0), <<k>>>>] : ls \in [1..n -> CommentLines]} :
              n \in 0..MaxComments}

InitComments ==
    \E n \in 0..MaxStmts :
    \E prior \in {<<>>, PriorComments} :
    \E sts \in [1..n -> StmtShapes(prior)] :
    \E cs \in CommentLists :
        /\ c_body = [body |-> sts, comments |-> cs]
        /\ c_body0 = c_body
        /\ lines_covered_by_statement = <<>>
        /\ best_span_for_line = <<>>
        /\ comments_per_line = <<>>
        /\ c_pc = "covered"
        /\ c_i = 1
        /\ PassIdle
        /\ t_ctx = NewCtx(TRUE, FALSE, <<>>)
        /\ impl_expr = NoImplExpr
        /\ t_result = <<"Idle">>
        /\ RegistrationIdle
        /\ PruningIdle
        /\ TypeStoreIdle
        /\ StructuringIdle

\* One statement of the first traversal.
CoverLine ==
    /\ c_pc = "covered"
    /\ c_i <= Len(c_body.body)
    /\ lines_covered_by_statement' = cover_line(lines_covered_by_statement, c_body.body[c_i])
    /\ c_i' = c_i + 1
    /\ UNCHANGED <<c_body, best_span_for_line, comments_per_line, c_pc, c_body0>>
    /\ UNCHANGED <<gvars, tvars, rvars, pvars, hvars, svars>>

CoverEnd ==
    /\ c_pc = "covered"
    /\ c_i > Len(c_body.body)
    /\ c_pc' = "best"
    /\ c_i' = 1
    /\ UNCHANGED <<c_body, lines_covered_by_statement, best_span_for_line,
                   comments_per_line, c_body0>>
    /\ UNCHANGED <<gvars, tvars, rvars, pvars, hvars, svars>>

\* One statement of the second traversal.
BestSpan ==
    /\ c_pc = "best"
    /\ c_i <= Len(c_body.body)
    /\ best_span_for_line' = best_span(best_span_for_line, c_body.body[c_i])
    /\ c_i' = c_i + 1
    /\ UNCHANGED <<c_body, lines_covered_by_statement, comments_per_line, c_pc, c_body0>>
    /\ UNCHANGED <<gvars, tvars, rvars, pvars, hvars, svars>>

\* The second traversal has ended: the comments are collected by line.
CollectComments ==
    /\ c_pc = "best"
    /\ c_i > Len(c_body.body)
    /\ comments_per_line' = collect(c_body.comments)
    /\ c_pc' = "assign"
    /\ c_i' = 1
    /\ UNCHANGED <<c_body, lines_covered_by_statement, best_span_for_line, c_body0>>
    /\ UNCHANGED <<gvars, tvars, rvars, pvars, hvars, svars>>

\* One statement of the third traversal.
AssignComments ==
    /\ c_pc = "assign"
    /\ c_i <= Len(c_body.body)
    /\ \E r \in {assign_comments(best_span_for_line, comments_per_line, c_body.body[c_i])} :
          /\ c_body' = [c_body EXCEPT !.body[c_i] = r.st]
          /\ comments_per_line' = r.per_line
    /\ c_i' = c_i + 1
    /\ UNCHANGED <<lines_covered_by_statement, best_span_for_line, c_pc, c_body0>>
    /\ UNCHANGED <<gvars, tvars, rvars, pvars, hvars, svars>>

\* transform_body returns.
AssignEnd ==
    /\ c_pc = "assign"
    /\ c_i > Len(c_body.body)
    /\ c_pc' = "done"
    /\ UNCHANGED <<c_body, lines_covered_by_statement, best_span_for_line,
                   comments_per_line, c_i, c_body0>>
    /\ UNCHANGED <<gvars, tvars, rvars, pvars, hvars, svars>>

CommentsNext ==
    \/ CoverLine
    \/ CoverEnd
    \/ BestSpan
    \/ CollectComments
    \/ AssignComments
    \/ AssignEnd

CommentsSpec == InitComments /\ [][CommentsNext]_vars

----------------------------------------------------------------------------
(* The type store: Ty, TyKind and HashConsed *)

\* TyKind, as far as the store is concerned: two shapes without a type inside
\* and one with a handle inside.
Never == <<"Never">>
Literal(literal_ty) == <<"Literal", literal_ty>>
RawPtr(ty, ref_kind) == <<"RawPtr", ty, ref_kind>>

\* The shapes that can be built from the handles 1..n.
TyKinds(n) ==
    {Never, Literal("Bool")} \cup {RawPtr(ty, rk) : ty \in 1..n, rk \in {"Shared", "Mut"}}

\* The structural hash of a shape; different shapes may share it.
structural_hash(kind) ==
    CASE kind[1] = "Never" -> 0
      [] kind[1] = "Literal" -> 1
      [] OTHER -> kind[2] % 2

\* The handles in the bucket of the shape whose shape is equal to it.
lookup(st, tb, kind) ==
    {tb[structural_hash(kind)][k] : k \in 1..Len(tb[structural_hash(kind)])}
        \cap {h \in 1..Len(st) : st[h] = kind}

\* HashConsed::new once the bucket of the hash has been searched: the handle
\* found for an equal shape, else a new handle, recorded in the bucket.
HashConsed_new(st, tb, kind, found) ==
    IF found # {}
    THEN [store |-> st, table |-> tb, handle |-> CHOOSE h \in found : TRUE]
    ELSE [store |-> Append(st, kind),
          table |-> [tb EXCEPT ![structural_hash(kind)] = Append(@, Len(st) + 1)],
          handle |-> Len(st) + 1]

\* HashConsed::inner
HashConsed_inner(st, handle) == st[handle]

\* Ty::new, but every call makes a handle of its own.
Ty_new_unshared(st, tb, kind, found) ==
    [store |-> Append(st, kind),
     table |-> [tb EXCEPT ![structural_hash(kind)] = Append(@, Len(st) + 1)],
     handle |-> Len(st) + 1]

\* Ty::new (types.rs:668-670)
Ty_new(st, tb, kind, found) == HashConsed_new(st, tb, kind, found)

\* Ty::kind (types.rs:672-674)
Ty_kind(st, handle) == HashConsed_inner(st, handle)

\* The type expression behind a handle, written out in full.
RECURSIVE expr_of(_, _)
expr_of(st, handle) ==
    IF Ty_kind(st, handle)[1] = "RawPtr"
    THEN <<"RawPtr", expr_of(st, Ty_kind(st, handle)[2]), Ty_kind(st, handle)[3]>>
    ELSE Ty_kind(st, handle)

\* The type expression of a shape whose inner types are handles.
expr_of_kind(st, kind) ==
    IF kind[1] = "RawPtr" THEN <<"RawPtr", expr_of(st, kind[2]), kind[3]>> ELSE kind

InitTypeStore ==
    /\ TypeStoreIdle
    /\ StructuringIdle
    /\ PassIdle
    /\ t_ctx = NewCtx(TRUE, FALSE, <<>>)
    /\ impl_expr = NoImplExpr
    /\ t_result = <<"Idle">>
    /\ RegistrationIdle
    /\ PruningIdle
    /\ CommentsIdle

\* An item calls Ty::new on a shape built from handles it was given.
CallNew(item) ==
    /\ h_pc[item] = "idle"
    /\ \E kind \in TyKinds(Len(store)) :
          /\ (Len(store) + Cardinality({i \in Items : h_pc[i] # "idle"}) < MaxTypes
                \/ lookup(store, table, kind) # {})
          /\ h_kind' = [h_kind EXCEPT ![item] = Some(kind)]
    /\ h_pc' = [h_pc EXCEPT ![item] = "wait"]
    /\ UNCHANGED <<store, table, lock, h_found, h_log>>
    /\ UNCHANGED <<gvars, tvars, rvars, pvars, cvars, svars>>

\* The item takes the lock of the store.
Acquire(item) ==
    /\ h_pc[item] = "wait"
    /\ lock = None
    /\ lock' = Some(item)
    /\ h_pc' = [h_pc EXCEPT ![item] = "locked"]
    /\ UNCHANGED <<store, table, h_kind, h_found, h_log>>
    /\ UNCHANGED <<gvars, tvars, rvars, pvars, cvars, svars>>

\* The item searches the bucket of the hash of its shape.
Lookup(item) ==
    /\ h_pc[item] = "locked"
    /\ h_found' = [h_found EXCEPT ![item] = lookup(store, table, unwrap(h_kind[item]))]
    /\ h_pc' = [h_pc EXCEPT ![item] = "searched"]
    /\ UNCHANGED <<store, table, lock, h_kind, h_log>>
    /\ UNCHANGED <<gvars, tvars, rvars, pvars, cvars, svars>>

\* The item has its handle, new or found, and gives the lock back.
Intern(item) ==
    /\ h_pc[item] = "searched"
    /\ \E r \in {Ty_new(store, table, unwrap(h_kind[item]), h_found[item])} :
          /\ store' = r.store
          /\ table' = r.table
          /\ h_log' = h_log \cup {<<expr_of_kind(store, unwrap(h_kind[item])), r.handle>>}
    /\ lock' = None
    /\ h_pc' = [h_pc EXCEPT ![item] = "idle"]
    /\ h_kind' = [h_kind EXCEPT ![item] = None]
    /\ h_found' = [h_found EXCEPT ![item] = {}]
    /\ UNCHANGED <<gvars, tvars, rvars, pvars, cvars, svars>>

TypeStoreNext ==
    \/ \E item \in Items : CallNew(item)
    \/ \E item \in Items : Acquire(item)
    \/ \E item \in Items : Lookup(item)
    \/ \E item \in Items : Intern(item)

TypeStoreSpec == InitTypeStore /\ [][TypeStoreNext]_vars

----------------------------------------------------------------------------
(* Control-flow structuring: the pass ullbc_to_llbc *)

\* The graph of a body: successors and reachability.
succs(g, i) == {targets(unwrap(g[i]).terminator)[k] :
                    k \in 1..Len(targets(unwrap(g[i]).terminator))}

\* One round of the closure of a relation given as a function from a block
\* to a set of blocks; k rounds cover the paths of up to 2^k edges.
RECURSIVE closure_from(_, _)
closure_from(r, k) ==
    IF k = 0 THEN r
    ELSE CHOOSE out \in
            {closure_from(r2, k - 1) :
                r2 \in {[u \in DOMAIN r |->
                           {w \in DOMAIN r : w \in r[u] \/ \E v \in r[u] : w \in r[v]}]}} :
            TRUE

\* The blocks reached from each block by a path of at least one edge.
closure(sf) == closure_from(sf, Cardinality(DOMAIN sf))

\* The edges that neither leave nor enter block d.
avoiding(sf, d) == [u \in DOMAIN sf |-> IF u = d THEN {} ELSE {w \in sf[u] : w # d}]

\* The edges of a body, the paths, and the paths that avoid a given block.
graph_of(g) ==
    CHOOSE gr \in
        {[succ |-> sf,
          reach |-> closure(sf),
          reach_avoiding |-> [d \in DOMAIN g |-> closure(avoiding(sf, d))]] :
            sf \in {[i \in DOMAIN g |-> succs(g, i)]}} :
        TRUE

\* d dominates v: every path from the entry to v goes through d.
dominates(gr, d, v) ==
    \/ d = v
    \/ d = START_BLOCK_ID
    \/ (v # START_BLOCK_ID /\ v \notin gr.reach_avoiding[d][START_BLOCK_ID])

\* Step (1): a back-edge is an edge whose target dominates its source.
back_edges(gr) ==
    {e \in (DOMAIN gr.succ) \X (DOMAIN gr.succ) :
        e[2] \in gr.succ[e[1]] /\ dominates(gr, e[2], e[1])}

\* Step (4): the graph is irreducible when a cycle remains once the
\* back-edges are taken away, that is when some cycle has several entries.
irreducible(gr, back) ==
    \E fw \in {closure([u \in DOMAIN gr.succ |->
                           {w \in gr.succ[u] : <<u, w>> \notin back}])} :
        \E u \in DOMAIN fw : u \in fw[u]

\* The natural loop of header h: h and the blocks that reach the source of a
\* back-edge to h without going through h.
natural_loop(gr, back, h) ==
    {v \in DOMAIN gr.succ :
        \/ v = h
        \/ \E e \in back :
              e[2] = h /\ (e[1] = v \/ e[1] \in gr.reach_avoiding[h][v])}

\* The targets of the edges that leave the natural loop of h.
exit_targets(gr, back, h) ==
    {t \in DOMAIN gr.succ :
        /\ t \notin natural_loop(gr, back, h)
        /\ \E u \in natural_loop(gr, back, h) : t \in gr.succ[u]}

NoBlock == 0 - 1

\* The block the code after the loop of h starts with: the target of the
\* exits when they all have the same one.
loop_exit(gr, back, h) ==
    IF Cardinality(exit_targets(gr, back, h)) = 1
    THEN CHOOSE t \in exit_targets(gr, back, h) : TRUE ELSE NoBlock

terminal(gr) == {v \in DOMAIN gr.succ : gr.succ[v] = {}}

\* The blocks other than i that every path from i to a return or a panic goes
\* through.
post_dominators(gr, i) ==
    IF (gr.reach[i] \cup {i}) \cap terminal(gr) = {} THEN {}
    ELSE {p \in DOMAIN gr.succ :
             /\ p # i
             /\ p \in gr.reach[i]
             /\ (gr.reach_avoiding[p][i] \cup {i}) \cap terminal(gr) = {}}

\* Step (3): the merge point of the switch that ends block i, its immediate
\* post-dominator.
merge_point(gr, i) ==
    IF post_dominators(gr, i) = {} THEN NoBlock
    ELSE CHOOSE p \in post_dominators(gr, i) :
            \A q \in post_dominators(gr, i) \ {p} : q \in post_dominators(gr, p)

\* Structured statements.  A structured body is a sequence of them.  Break and
\* Continue name a loop by the number of loops between them and it.  The
\* target of a Branch and the origin of a Switch are history: the block the
\* branch was made for and the block whose terminator the switch was.
Stmt(n) == <<"Stmt", n>>
CallStmt == <<"Call">>
Loop(block) == <<"Loop", block>>
Break(depth) == <<"Break", depth>>
Continue(depth) == <<"Continue", depth>>
Branch(target, block) == [target |-> target, block |-> block]
SwitchStmt(branches, origin) == <<"Switch", branches, origin>>
ReturnStmt == <<"Return">>
PanicStmt == <<"Panic">>
SetDispatch(value) == <<"SetDispatch", value>>
SwitchDispatch(branches) == <<"SwitchDispatch", branches>>
Diverged == <<"Diverged">>

\* The constructs that are open around the statement being produced, the
\* innermost last.
LoopFrame(h, exit) == <<"loop", h, exit>>
MergeFrame(m) == <<"merge", m, NoBlock>>

loops_inside(ctx, k) == Cardinality({j \in (k + 1)..Len(ctx) : ctx[j][1] = "loop"})

open_loop(ctx, t) == {k \in 1..Len(ctx) : ctx[k][1] = "loop" /\ ctx[k][2] = t}

exited_loop(ctx, t) == {k \in 1..Len(ctx) : ctx[k][1] = "loop" /\ ctx[k][3] = t}

innermost(ks) == CHOOSE k \in ks : \A j \in ks : j <= k

statements_code(g, i) ==
    [k \in 1..Len(unwrap(g[i]).statements) |-> Stmt(unwrap(g[i]).statements[k])]

\* The targets of the branches of a switch, in the order of the terminator.
switch_branches(t) == <<t[2], t[3]>>

\* What steps (1) to (3) find out about the graph before any code is made.
analysis(g) ==
    CHOOSE a \in
        {[irreducible |-> irreducible(gr, back),
          headers |-> {e[2] : e \in back},
          loop_exit |-> [h \in DOMAIN g |->
                           IF h \in {e[2] : e \in back}
                           THEN loop_exit(gr, back, h) ELSE NoBlock],
          merge_point |-> [i \in DOMAIN g |->
                             IF unwrap(g[i]).terminator[1] = "Switch"
                             THEN merge_point(gr, i) ELSE NoBlock]] :
            <<gr, back>> \in {<<x, back_edges(x)>> : x \in {graph_of(g)}}} :
        TRUE

RECURSIVE gen(_, _, _, _, _)
RECURSIVE jump(_, _, _, _, _)
RECURSIVE block_code(_, _, _, _, _)

\* The code of an edge to block t: a continue when t is the header of an open
\* loop, a break when t is what follows an open loop, nothing when t is the
\* merge point of the innermost open switch, else the code of block t.
jump(g, a, t, ctx, fuel) ==
    IF open_loop(ctx, t) # {}
    THEN <<Continue(loops_inside(ctx, innermost(open_loop(ctx, t))))>>
    ELSE IF exited_loop(ctx, t) # {}
    THEN <<Break(loops_inside(ctx, innermost(exited_loop(ctx, t))))>>
    ELSE IF ctx # <<>> /\ ctx[Len(ctx)] = MergeFrame(t)
    THEN <<>>
    ELSE gen(g, a, t, ctx, fuel)

\* The statements of block i and the code of its terminator.
block_code(g, a, i, ctx, fuel) ==
    statements_code(g, i) \o
    (CASE unwrap(g[i]).terminator[1] = "Goto" ->
              jump(g, a, unwrap(g[i]).terminator[2], ctx, fuel)
       [] unwrap(g[i]).terminator[1] = "Call" ->
              <<CallStmt>> \o jump(g, a, unwrap(g[i]).terminator[2], ctx, fuel)
       [] unwrap(g[i]).terminator[1] = "Switch" ->
              <<SwitchStmt([k \in 1..2 |->
                              Branch(switch_branches(unwrap(g[i]).terminator)[k],
                                     jump(g, a, switch_branches(unwrap(g[i]).terminator)[k],
                                          IF a.merge_point[i] = NoBlock THEN ctx
                                          ELSE Append(ctx, MergeFrame(a.merge_point[i])),
                                          fuel))], i)>>
              \o (IF a.merge_point[i] = NoBlock THEN <<>>
                  ELSE jump(g, a, a.merge_point[i], ctx, fuel))
       [] unwrap(g[i]).terminator[1] = "Return" -> <<ReturnStmt>>
       [] OTHER -> <<PanicStmt>>)

\* Step (2): the code that starts at block i; a loop header opens a loop,
\* followed by the code of the exit of the loop.
gen(g, a, i, ctx, fuel) ==
    IF fuel = 0 THEN <<Diverged>>
    ELSE IF i \in a.headers
    THEN <<Loop(block_code(g, a, i, Append(ctx, LoopFrame(i, a.loop_exit[i])), fuel - 1))>>
         \o (IF a.loop_exit[i] = NoBlock THEN <<>>
             ELSE jump(g, a, a.loop_exit[i], ctx, fuel - 1))
    ELSE block_code(g, a, i, ctx, fuel - 1)

\* Step (4): the blocks as the branches of a switch on a dispatch variable
\* inside a loop; every edge sets the variable and continues the loop.
dispatch_edge(t) == <<SetDispatch(t), Continue(0)>>

dispatch_block(g, i) ==
    LET t == unwrap(g[i]).terminator
    IN statements_code(g, i) \o
       (CASE t[1] = "Goto" -> dispatch_edge(t[2])
          [] t[1] = "Call" -> <<CallStmt>> \o dispatch_edge(t[2])
          [] t[1] = "Switch" ->
                <<SwitchStmt([k \in 1..2 |->
                                 Branch(switch_branches(t)[k],
                                        dispatch_edge(switch_branches(t)[k]))], i)>>
          [] t[1] = "Return" -> <<ReturnStmt>>
          [] OTHER -> <<PanicStmt>>)

dispatch_loop(g) ==
    <<SetDispatch(START_BLOCK_ID),
      Loop(<<SwitchDispatch([k \in 1..Cardinality(DOMAIN g) |-> dispatch_block(g, k - 1)])>>)>>

\* structure, but the fallback of step (4) is never taken.
structure_without_fallback(g, a, fuel) == gen(g, a, START_BLOCK_ID, <<>>, fuel)

\* The pass on one body, a being what analysis found.
structure(g, a, fuel) ==
    IF a.irreducible THEN dispatch_loop(g) ELSE gen(g, a, START_BLOCK_ID, <<>>, fuel)

\* The terminators of the bodies handed to the pass: here the order of the
\* branches of a switch counts.
StructTerminators(n) ==
    {Return}
    \cup {Goto(t) : t \in 0..(n - 1)}
    \cup {Switch(e[1], e[2]) : e \in {x \in (0..(n - 1)) \X (0..(n - 1)) : x[1] # x[2]}}

\* The blocks are numbered in the order in which they are met from the
\* entry: going through the blocks by number, the targets of block j that were
\* not met before are the next numbers, in either order, and every block has
\* been met when its turn comes.  Every body without unreachable blocks is
\* one of these up to the numbering of its blocks.
RECURSIVE numbered_as_met(_, _, _)
numbered_as_met(terms, j, m) ==
    IF j \notin DOMAIN terms THEN TRUE
    ELSE IF j > m THEN FALSE
    ELSE \E new \in {{targets(terms[j])[k] : k \in 1..Len(targets(terms[j]))} \ (0..m)} :
            /\ new = (m + 1)..(m + Cardinality(new))
            /\ numbered_as_met(terms, j + 1, m + Cardinality(new))

\* All bodies of at most MaxNodes blocks with a single entry, block 0, all of
\* whose blocks can be reached from it; block i holds the one statement i.
InitStructuring ==
    \E n \in 1..MaxNodes :
    \E terms \in {f \in [0..(n - 1) -> StructTerminators(n)] :
                    numbered_as_met(f, START_BLOCK_ID, START_BLOCK_ID)} :
        /\ s_body = [i \in 0..(n - 1) |-> Some(BlockData(<<i>>, terms[i]))]
        /\ s_out = None
        /\ s_pc = "start"
        /\ PassIdle
        /\ t_ctx = NewCtx(TRUE, FALSE, <<>>)
        /\ impl_expr = NoImplExpr
        /\ t_result = <<"Idle">>
        /\ RegistrationIdle
        /\ PruningIdle
        /\ CommentsIdle
        /\ TypeStoreIdle

\* The pass runs and returns the structured body.
Structure ==
    /\ s_pc = "start"
    /\ \E a \in {analysis(s_body)} : s_out' = Some(structure(s_body, a, MaxDepth))
    /\ s_pc' = "done"
    /\ UNCHANGED s_body
    /\ UNCHANGED <<gvars, tvars, rvars, pvars, cvars, hvars>>

StructuringNext == Structure

StructuringSpec == InitStructuring /\ [][StructuringNext]_vars

----------------------------------------------------------------------------
(* transform_body, step by step *)

\* pass_disabled, but the option is not looked at.
pass_never_disabled(opts) == FALSE

\* `if ctx.options.no_merge_goto_chains { return; }`
pass_disabled(opts) == opts.no_merge_goto_chains

Disabled ==
    /\ pc = "start"
    /\ pass_disabled(options)
    /\ pc' = "done"
    /\ UNCHANGED <<options, body, antecedents, idx, id, round, body0, body1, merges>>
    /\ UNCHANGED <<hops, tvars, rvars, pvars, cvars, hvars, svars>>

\* The computation of the antecedents.
ComputeAntecedents ==
    /\ pc = "start"
    /\ ~pass_disabled(options)
    /\ IF dangling(body)
       THEN /\ pc' = "panic_get_mut"
            /\ UNCHANGED antecedents
       ELSE /\ pc' = "for"
            /\ antecedents' = compute_antecedents(body)
    /\ idx' = 0
    /\ merges' = 0
    /\ UNCHANGED <<options, body, id, round, body0, body1>>
    /\ UNCHANGED <<hops, tvars, rvars, pvars, cvars, hvars, svars>>

\* The control point reached once the walk has ended at block i: the head of
\* the merge loop when its condition holds, else the end of the iteration.
after_walk(b, ant, i) == IF merge_cond(b, ant, i) THEN "merge" ELSE "for"

\* The control point reached with the loop variable at block i: the head of
\* the walk when block i has a single antecedent, else as after the walk.
after_step(b, ant, i) == IF IsOne(ant[i]) THEN "up" ELSE after_walk(b, ant, i)

\* `for mut id in body.body.all_indices()`: the next index.  `antecedents[id]`
\* is an indexing of a Vector; on an empty slot the indexing either aborts or
\* the slot is passed over.
NextIndex ==
    /\ pc = "for"
    /\ idx \in all_indices(body)
    /\ idx' = idx + 1
    /\ IF antecedents[idx] = None
       THEN /\ pc' \in {"panic_index", "for"}
            /\ UNCHANGED id
       ELSE /\ pc' = after_step(body, antecedents, idx)
            /\ id' = idx
    /\ UNCHANGED <<options, body, antecedents, round, body0, body1, merges>>
    /\ hops' = 0
    /\ UNCHANGED <<tvars, rvars, pvars, cvars, hvars, svars>>

\* The iterator is exhausted: transform_body returns.
LoopEnd ==
    /\ pc = "for"
    /\ idx \notin all_indices(body)
    /\ pc' = "done"
    /\ UNCHANGED <<options, body, antecedents, idx, id, round, body0, body1, merges>>
    /\ UNCHANGED <<hops, tvars, rvars, pvars, cvars, hvars, svars>>

\* One iteration of
\* `while let Antecedents::One(antecedent) = antecedents[id] { id = antecedent; }`
GoUp ==
    /\ pc = "up"
    /\ id' = unwrap(antecedents[id])[2]
    /\ pc' = after_step(body, antecedents, unwrap(antecedents[id])[2])
    /\ UNCHANGED <<options, body, antecedents, idx, round, body0, body1, merges>>
    /\ hops' = 1 - hops
    /\ UNCHANGED <<tvars, rvars, pvars, cvars, hvars, svars>>

\* One iteration of the merge loop.
MergeTarget ==
    /\ pc = "merge"
    /\ IF merge_fails(body, id, merge_target(body, id))
       THEN /\ pc' = "panic_remove"
            /\ UNCHANGED <<body, merges>>
       ELSE /\ body' = merge(body, id, merge_target(body, id))
            /\ merges' = merges + 1
            /\ pc' = after_walk(merge(body, id, merge_target(body, id)), antecedents, id)
    /\ UNCHANGED <<options, antecedents, idx, id, round, body0, body1>>
    /\ UNCHANGED <<hops, tvars, rvars, pvars, cvars, hvars, svars>>

\* The pass is run again on its own output.
RunAgain ==
    /\ pc = "done"
    /\ round = 1
    /\ round' = 2
    /\ body1' = body
    /\ pc' = "start"
    /\ UNCHANGED <<options, body, antecedents, idx, id, body0, merges>>
    /\ UNCHANGED <<hops, tvars, rvars, pvars, cvars, hvars, svars>>

Next ==
    \/ Disabled
    \/ ComputeAntecedents
    \/ NextIndex
    \/ LoopEnd
    \/ GoUp
    \/ MergeTarget
    \/ RunAgain

Spec == Init /\ [][Next]_vars

\* transform_body is a sequential function: whenever a step is possible, one
\* is taken.
FairSpec == Init /\ [][Next]_vars /\ WF_vars(Next)

\* The pass on the pure linear chains only.
ChainSpec == InitChain /\ [][Next]_vars

----------------------------------------------------------------------------
(* Execution of a body, for comparing the input and the output of the pass *)

\* Observations are numbers: a statement is its own (positive) number.
ObsCall == 0 - 1
ObsReturn == 0 - 2
ObsPanic == 0 - 3
ObsMissing == 0 - 4
ObsSwitch(c) == 0 - (4 + c)

\* The first ObsLen observations of the path from block cur that takes branch
\* choices[1] at the first switch, choices[2] at the second, and so on.  An
\* unconditional jump is not observed.  fuel bounds the number of blocks
\* entered, so that a cycle of jumps between empty blocks ends.
RECURSIVE run(_, _, _, _, _)
run(b, cur, choices, fuel, acc) ==
    IF Len(acc) >= ObsLen THEN SubSeq(acc, 1, ObsLen)
    ELSE IF fuel = 0 THEN acc
    ELSE IF get(b, cur) = None THEN Append(acc, ObsMissing)
    ELSE LET blk == unwrap(b[cur])
             seen == acc \o blk.statements
             t == blk.terminator
         IN CASE t[1] = "Goto" -> run(b, t[2], choices, fuel - 1, seen)
              [] t[1] = "Call" -> run(b, t[2], choices, fuel - 1, Append(seen, ObsCall))
              [] t[1] = "Switch" ->
                    IF choices = <<>> THEN SubSeq(seen, 1, IF Len(seen) < ObsLen THEN Len(seen) ELSE ObsLen)
                    ELSE run(b, t[1 + Head(choices)], Tail(choices), fuel - 1,
                             Append(seen, ObsSwitch(Head(choices))))
              [] t[1] = "Return" -> SubSeq(Append(seen, ObsReturn), 1,
                                           IF Len(seen) + 1 < ObsLen THEN Len(seen) + 1 ELSE ObsLen)
              [] OTHER -> SubSeq(Append(seen, ObsPanic), 1,
                                 IF Len(seen) + 1 < ObsLen THEN Len(seen) + 1 ELSE ObsLen)

ChoiceSeqs == [1..ObsLen -> {1, 2}]

observe(b, choices) ==
    run(b, START_BLOCK_ID, choices, (ObsLen + 1) * (MaxBlocks + 1), <<>>)

----------------------------------------------------------------------------
(* Claims about goto-chain contraction *)

RECURSIVE concat_along(_, _, _)
concat_along(b, order, k) ==
    IF k > Len(order) THEN <<>>
    ELSE unwrap(b[order[k]]).statements \o concat_along(b, order, k + 1)

ChainExample ==
    (0 :> Some(BlockData(<<>>, Goto(1)))) @@ (1 :> Some(BlockData(<<>>, Goto(2))))
    @@ (2 :> Some(BlockData(<<>>, Return)))

\* C1: on a pure linear chain B0 -> ... -> Bn, whatever the numbering of
\* B1..Bn, the enabled pass leaves exactly block 0, holding the statements of
\* B0, B1, ..., Bn in chain order and the terminator of Bn; the chain
\* B0{goto B1}, B1{goto B2}, B2{return} without statements becomes B0{return}.
C1_ChainContracted ==
    (pc = "done" /\ round = 1 /\ ~options.no_merge_goto_chains /\ is_chain(body0)) =>
        LET order == chain_order(body0, START_BLOCK_ID, Cardinality(DOMAIN body0))
        IN /\ present(body) = {START_BLOCK_ID}
           /\ unwrap(body[START_BLOCK_ID]).statements = concat_along(body0, order, 1)
           /\ unwrap(body[START_BLOCK_ID]).terminator
                = unwrap(body0[order[Len(order)]]).terminator
           /\ (body0 = ChainExample =>
                 body[START_BLOCK_ID] = Some(BlockData(<<>>, Return)))

\* A chain of three blocks numbered against the chain order (B0 -> B2 -> B1),
\* with statements in the last two blocks, has been contracted.
C1_Witness ==
    /\ pc = "done" /\ round = 1 /\ merges >= 2
    /\ is_chain(body0)
    /\ unwrap(body0[0]).terminator = Goto(2)
    /\ Len(unwrap(body0[1]).statements) > 0
    /\ Len(unwrap(body0[2]).statements) > 0

RECURSIVE reach(_, _, _)
reach(b, seen, fuel) ==
    LET es == edges(b)
        more == seen \cup {es[k][2] : k \in {j \in 1..Len(es) : es[j][1] \in seen}}
    IN IF fuel = 0 \/ more = seen THEN seen ELSE reach(b, more, fuel - 1)

\* Every block can be reached from the entry block.
all_reachable(b) == reach(b, {START_BLOCK_ID}, Cardinality(DOMAIN b)) = DOMAIN b

\* C2 (as claimed): the pass terminates on every well-formed body, bodies
\* with cycles of singly-referenced blocks included: it reaches its end.
C2_Terminates == <>(pc = "done")

\* C3 (as claimed): along every path from the entry block the statements and
\* the terminators other than unconditional jumps are the same before and
\* after the pass.  Stated for the bodies all of whose blocks can be reached
\* from the entry.
C3_SameObservations ==
    (pc = "done" /\ round = 1 /\ all_reachable(body0)) =>
        \A ch \in ChoiceSeqs : observe(body, ch) = observe(body0, ch)

\* C4: when the pass is run on its own output, no block is removed and no
\* statement list or terminator changes.
C4_Idempotent == round = 2 => body = body1

\* The second run has gone through a body that the first run changed.
C4_Witness == round = 2 /\ pc = "done" /\ body1 # body0

\* C5 (as claimed): the pass never removes block 0, the entry.  Stated for
\* the bodies all of whose blocks can be reached from the entry.
C5_EntryKept ==
    (pc = "done" /\ all_reachable(body0)) => get(body, START_BLOCK_ID) # None

\* C6: in every state of the pass, hence after every merge, every terminator
\* target names a block that exists, and no removal of a block fails.
C6_NoDanglingTarget ==
    /\ ~dangling(body)
    /\ pc \notin {"panic_remove", "panic_get_mut"}

\* A merge has just been performed.
C6_Witness ==
    /\ round = 1 /\ pc \in {"merge", "for"} /\ merges >= 1
    /\ elem_count(body) < elem_count(body0)

\* C7: the output of the pass has at most as many blocks as its input, and
\* fewer when a merge was performed.
C7_BlockCount ==
    (pc = "done" /\ round = 1) =>
        /\ elem_count(body) <= elem_count(body0)
        /\ (merges > 0 => elem_count(body) < elem_count(body0))

\* The pass has finished after two merges.
C7_Witness == pc = "done" /\ round = 1 /\ merges >= 2

\* C8: with no_merge_goto_chains set the body stays as it was, also a body
\* on which the enabled pass merges blocks.
C8_DisabledUnchanged == options.no_merge_goto_chains => body = body0

\* The disabled pass has returned on a body whose entry block jumps to a
\* singly-referenced block.
C8_Witness ==
    /\ options.no_merge_goto_chains
    /\ pc = "done"
    /\ merge_cond(body0, compute_antecedents(body0), START_BLOCK_ID)
    /\ ~IsOne(compute_antecedents(body0)[START_BLOCK_ID])

----------------------------------------------------------------------------
(* Claims about the translation of witnesses *)

called == t_result # Pending /\ t_result # <<"Idle">>

is_path_atom == impl_expr.impl.kind \in {"SelfImpl", "LocalBound"}

is_gat(path_elem) == path_elem.kind = "AssocItem" /\ path_elem.generic_args # <<>>

has_gat(path) == \E k \in 1..Len(path) : is_gat(path[k])

\* Number of ParentClause and ItemClause nodes around the innermost kind.
RECURSIVE depth(_)
depth(kind) ==
    IF kind[1] \in {"ParentClause", "ItemClause"} THEN 1 + depth(kind[2]) ELSE 0

\* The kind found under the k outermost nodes.
RECURSIVE strip(_, _)
strip(kind, k) == IF k = 0 THEN kind ELSE strip(kind[2], k - 1)

\* The declaration reference of the trait of the witness, as translated.
expected_decl_ref ==
    RegionBinder(impl_expr.trait.bound_vars,
                 TraitDeclRef(trait_decl_id(t_ctx, impl_expr.trait.def_id),
                              <<"GenericArgs", impl_expr.trait.generic_args>>))

ExamplePath ==
    << [kind |-> "Parent", predicate |-> "Trait2", index |-> 0],
       [kind |-> "AssocItem", item |-> "AssocName", generic_args |-> <<>>,
        predicate |-> "Trait3", index |-> 0] >>

\* C9: for a Self or local-clause witness whose path p1..pn has no associated
\* item with generics, the kind returned has n nodes around the root (SelfId
\* or Clause(index)); the i-th node from the inside is ParentClause(., D, k)
\* or ItemClause(., D, N, k) as p_i is a parent or an item element of index
\* k and name N, D being the declaration of the trait of the root for i = 1
\* and of the predicate of p_(i-1) otherwise.  Local clause 2 of Trait1, then
\* parent 0 (Trait2), then item clause 0 of AssocName gives
\* ItemClause(ParentClause(Clause(2), Trait1, 0), Trait2, "AssocName", 0).
C9_PathWalk ==
    (called /\ is_path_atom /\ ~has_gat(impl_expr.impl.path)
            /\ impl_expr.trait.generic_args = GoodArgs) =>
        LET atom == impl_expr.impl
            path == atom.path
            n == Len(path)
            kind == t_result[2].kind
            root == IF atom.kind = "SelfImpl" THEN SelfId ELSE Clause(Free(atom.index))
            decl(i) == trait_decl_id(t_ctx, IF i = 1 THEN atom.trait
                                            ELSE path[i - 1].predicate)
        IN /\ is_ok(t_result)
           /\ depth(kind) = n
           /\ strip(kind, n) = root
           /\ \A i \in 1..n :
                strip(kind, n - i) =
                    IF path[i].kind = "Parent"
                    THEN ParentClause(strip(kind, n - i + 1), decl(i), path[i].index)
                    ELSE ItemClause(strip(kind, n - i + 1), decl(i), path[i].item,
                                    path[i].index)
           /\ ((atom.kind = "LocalBound" /\ atom.trait = "Trait1" /\ path = ExamplePath) =>
                 kind = ItemClause(ParentClause(Clause(Free(2)),
                                                trait_decl_id(t_ctx, "Trait1"), 0),
                                   trait_decl_id(t_ctx, "Trait2"), "AssocName", 0))

\* The witness "local clause 2, parent 0, item clause 0 of AssocName" has
\* been translated.
C9_Witness ==
    /\ called /\ is_ok(t_result)
    /\ impl_expr.impl.kind = "LocalBound"
    /\ impl_expr.impl.trait = "Trait1"
    /\ impl_expr.impl.path = ExamplePath
    /\ depth(t_result[2].kind) = 2

\* The translation of the declaration reference of the trait fails.
decl_fails == impl_expr.trait.generic_args = BadArgs

\* translate_trait_impl_expr_aux returns an error.
aux_fails ==
    \/ impl_expr.impl.kind = "Concrete" /\ impl_expr.impl.generics = BadArgs
    \/ is_path_atom /\ has_gat(impl_expr.impl.path)

\* The message of that error.
aux_msg ==
    IF impl_expr.impl.kind = "Concrete" THEN BadArgsMsg
    ELSE LET path == impl_expr.impl.path
             first == CHOOSE k \in 1..Len(path) :
                          is_gat(path[k]) /\ \A j \in 1..(k - 1) : ~is_gat(path[j])
         IN GatMsg(path[first].item, expected_decl_ref)

\* C10 (as claimed): with continue_on_failure, whatever fails while the
\* witness is resolved, translate_trait_impl_expr returns Ok with an Unknown
\* kind and never returns the error to its caller.
C10_EveryFailureCaught ==
    (called /\ t_ctx.continue_on_failure /\ (decl_fails \/ aux_fails)) =>
        is_ok(t_result) /\ t_result[2].kind[1] = "Unknown"

\* C10 (amended): with continue_on_failure, an error returned by
\* translate_trait_impl_expr_aux is caught: a diagnostic is recorded and the
\* result is Ok(TraitRef) with kind Unknown(message of the error) and the
\* translated declaration reference of the trait of the witness; an error of
\* translate_trait_decl_ref, which comes first, is returned to the caller.
\* Without continue_on_failure either failure aborts the run.
C10_AuxFailureCaught ==
    called =>
        /\ (t_ctx.continue_on_failure /\ ~decl_fails /\ aux_fails) =>
              /\ t_result = Ok(TraitRef(Unknown(aux_msg), expected_decl_ref))
              /\ \E k \in 1..Len(t_ctx.errors) :
                    t_ctx.errors[k] = <<"Error during trait resolution: ", aux_msg>>
        /\ (t_ctx.continue_on_failure /\ decl_fails) => t_result = Err(BadArgsMsg)
        /\ (~t_ctx.continue_on_failure /\ (decl_fails \/ aux_fails)) =>
              t_result[1] = "Panic"

\* A local-clause witness whose path holds an associated item with generics
\* has been translated with recovery enabled.
C10_Witness ==
    /\ called /\ t_ctx.continue_on_failure /\ ~decl_fails
    /\ impl_expr.impl.kind = "LocalBound"
    /\ has_gat(impl_expr.impl.path)
    /\ is_ok(t_result) /\ t_result[2].kind[1] = "Unknown"

\* The witness is an Error(msg) witness.
is_error_atom == impl_expr.impl.kind = "Error"

\* The diagnostic recorded for an Error(msg) witness.
error_atom_diag == <<"Error during trait resolution: ", impl_expr.impl.msg>>

\* C11: when the declaration reference of the trait has been translated, an
\* Error(msg) witness aborts the run, with a text made of the message of the
\* witness, exactly when error_on_impl_expr_error is set and
\* continue_on_failure is not; in every other configuration the call returns
\* Ok with the kind Unknown(msg), and a diagnostic has been recorded exactly
\* when error_on_impl_expr_error is set.
C11_ErrorWitness ==
    (called /\ is_error_atom /\ ~decl_fails) =>
        IF t_ctx.error_on_impl_expr_error /\ ~t_ctx.continue_on_failure
        THEN t_result = Aborted(error_atom_diag)
        ELSE /\ t_result = Ok(TraitRef(Unknown(impl_expr.impl.msg), expected_decl_ref))
             /\ t_ctx.error_on_impl_expr_error => t_ctx.errors = <<error_atom_diag>>
             /\ ~t_ctx.error_on_impl_expr_error => t_ctx.errors = <<>>

\* An Error witness has aborted the run.
C11_Witness ==
    /\ called /\ is_error_atom /\ ~decl_fails
    /\ t_ctx.error_on_impl_expr_error /\ ~t_ctx.continue_on_failure
    /\ t_result[1] = "Panic"

\* The first element of the path that is an associated item with generics.
first_gat(path) ==
    CHOOSE k \in 1..Len(path) : is_gat(path[k]) /\ \A j \in 1..(k - 1) : ~is_gat(path[j])

\* The table of trait declarations after the definitions ds[1..n] have been
\* registered in turn.
RECURSIVE registered_in_turn(_, _, _)
registered_in_turn(ctx, ds, n) ==
    IF n = 0 THEN ctx ELSE register_trait_decl(registered_in_turn(ctx, ds, n - 1), ds[n])

\* The declarations the translation meets up to, and without, the first
\* associated item with generics: the trait of the witness, the trait of the
\* root and the predicates of the elements walked through.
met_before_gat ==
    LET path == impl_expr.impl.path
    IN <<impl_expr.trait.def_id, impl_expr.impl.trait>>
       \o [k \in 1..(first_gat(path) - 1) |-> path[k].predicate]

\* C12: when the path of a Self or local-clause witness holds an associated
\* item with extra generic arguments, the walk stops there: the
\* declarations registered are those met before that element and no others,
\* no ItemClause or ParentClause node reaches the caller; with
\* continue_on_failure the caller gets Ok with the kind Unknown and a
\* diagnostic is recorded, without it the run aborts.
C12_GatRejected ==
    (called /\ is_path_atom /\ has_gat(impl_expr.impl.path) /\ ~decl_fails) =>
        /\ t_ctx.trait_decl_ids =
              registered_in_turn(NewCtx(TRUE, FALSE, <<"Trait3">>), met_before_gat,
                                 Len(met_before_gat)).trait_decl_ids
        /\ IF t_ctx.continue_on_failure
           THEN /\ is_ok(t_result)
                /\ t_result[2].kind =
                     Unknown(GatMsg(impl_expr.impl.path[first_gat(impl_expr.impl.path)].item,
                                    expected_decl_ref))
                /\ Len(t_ctx.errors) >= 1
           ELSE t_result[1] = "Panic"

\* A path whose first element is an associated item with generics and whose
\* second element has a predicate met nowhere else has been translated.
C12_Witness ==
    /\ called /\ is_path_atom /\ ~decl_fails /\ t_ctx.continue_on_failure
    /\ Len(impl_expr.impl.path) = 2
    /\ is_gat(impl_expr.impl.path[1])
    /\ impl_expr.impl.path[1].predicate = "Trait1"
    /\ impl_expr.impl.path[2].predicate = "Trait2"
    /\ impl_expr.impl.trait = "Trait3"
    /\ t_result[2].kind[1] = "Unknown"

----------------------------------------------------------------------------
(* Claims about the registration of predicates *)

\* The positions k..Len(ps) of the predicates of ps that are trait
\* predicates (trait = TRUE) or are not (trait = FALSE), in increasing order.
RECURSIVE positions(_, _, _)
positions(ps, k, trait) ==
    IF k > Len(ps) THEN <<>>
    ELSE IF (ps[k].kind = "Trait") = trait
         THEN <<k>> \o positions(ps, k + 1, trait)
         ELSE positions(ps, k + 1, trait)

\* The clause list a location names (empty when the item has none yet).
clauses_at(ctx, loc) ==
    CASE loc = Base -> ctx.generic_params.trait_clauses
      [] loc = Parent -> ctx.parent_trait_clauses
      [] OTHER -> entry_or_default(ctx.item_trait_clauses, loc[2])

\* C13: in every call of register_predicates, a trait predicate is never
\* handed to register_predicate after a predicate of another kind, and two
\* predicates of the same group are handed over in the order of the list;
\* when the call returns Ok, the trait predicates have all been registered,
\* then all the others; after a first call the k-th clause of the list of
\* the location has id k - 1 and is the k-th trait predicate of the input.
C13_TraitsFirst ==
    /\ \A a \in DOMAIN r_log : \A b \in DOMAIN r_log :
          a < b =>
            /\ preds[r_log[b]].kind = "Trait" => preds[r_log[a]].kind = "Trait"
            /\ (preds[r_log[a]].kind = "Trait") = (preds[r_log[b]].kind = "Trait")
                  => r_log[a] < r_log[b]
    /\ r_pc = "ok" => r_log = positions(preds, 1, TRUE) \o positions(preds, 1, FALSE)
    /\ (r_pc = "ok" /\ calls = 1) =>
          LET tp == positions(preds, 1, TRUE)
              list == clauses_at(t_ctx, location)
          IN /\ Len(list) = Len(tp)
             /\ \A k \in 1..Len(tp) :
                  /\ list[k].clause_id = k - 1
                  /\ list[k].trait_ =
                       RegionBinder(preds[tp[k]].bound_vars,
                                    TraitDeclRef(trait_decl_id(t_ctx, preds[tp[k]].def_id),
                                                 <<"GenericArgs", GoodArgs>>))

\* A list that begins with a predicate of another kind and goes on with the
\* trait predicates of Trait2 and Trait1 has been registered.
C13_Witness ==
    /\ r_pc = "ok" /\ calls = 1
    /\ r_log = <<2, 3, 1>>
    /\ preds[2].def_id = "Trait2" /\ preds[3].def_id = "Trait1"

\* The clause and constraint lists of the context.
lists_of(ctx) == <<ctx.generic_params, ctx.parent_trait_clauses, ctx.item_trait_clauses>>

\* The step is a call of register_predicate.
register_predicate_called == Len(r_log') = Len(r_log) + 1

\* C14: a call of register_predicate on a predicate of one of the nine
\* rejected kinds never lets the loop go on: with continue_on_failure it
\* returns an error, which is recorded, and register_predicates returns it;
\* without it the run aborts; in both cases every clause list and every
\* constraint list is as before the call.
C14_UnsupportedRejected ==
    [][(register_predicate_called /\ preds[r_i].kind \in RejectedKinds) =>
          /\ r_pc' = IF t_ctx.continue_on_failure THEN "err" ELSE "panic"
          /\ t_ctx'.errors = Append(t_ctx.errors, RejectedMsg(preds[r_i].kind))
          /\ lists_of(t_ctx') = lists_of(t_ctx)]_vars

\* A predicate of a rejected kind has been refused after a trait predicate
\* had been registered.
C14_Witness ==
    /\ r_pc = "err"
    /\ r_log = <<1, 2>>
    /\ preds[2].kind \in RejectedKinds
    /\ Len(t_ctx.generic_params.trait_clauses) = 1

\* C15: a call of register_predicate that registers a trait predicate
\* appends one clause to the list of the location of the call (the list of
\* an item name is first created empty when the item has none) and leaves
\* the base list, the parent list and the lists of the item names it does
\* not name as they were.
C15_TargetList ==
    [][(register_predicate_called /\ preds[r_i].kind = "Trait" /\ r_pc' = r_pc) =>
          /\ Len(clauses_at(t_ctx', location)) = Len(clauses_at(t_ctx, location)) + 1
          /\ SubSeq(clauses_at(t_ctx', location), 1, Len(clauses_at(t_ctx, location)))
                = clauses_at(t_ctx, location)
          /\ \A loc \in {Base, Parent} \ {location} :
                clauses_at(t_ctx', loc) = clauses_at(t_ctx, loc)
          /\ DOMAIN t_ctx'.item_trait_clauses =
                DOMAIN t_ctx.item_trait_clauses
                  \cup (IF location[1] = "Item" THEN {location[2]} ELSE {})
          /\ \A n \in DOMAIN t_ctx.item_trait_clauses :
                Item(n) # location =>
                    t_ctx'.item_trait_clauses[n] = t_ctx.item_trait_clauses[n]]_vars

\* Clauses have been registered for an item name while another item name
\* had clauses already.
C15_Witness ==
    /\ calls = 2 /\ location = Item("ItemB")
    /\ DOMAIN t_ctx.item_trait_clauses = {"ItemA", "ItemB"}
    /\ Len(t_ctx.item_trait_clauses["ItemA"]) >= 1
    /\ Len(t_ctx.item_trait_clauses["ItemB"]) >= 2

\* The clause at position i of the list carries the id i.
dense(v) == \A k \in DOMAIN v : v[k].clause_id = k - 1

\* The clause lists of the items of the crate.
clause_lists_of_crate(c) ==
    {c.fun_decls[i].generics.trait_clauses : i \in DOMAIN c.fun_decls}
    \cup {c.global_decls[i].generics.trait_clauses : i \in DOMAIN c.global_decls}

\* C16: clause ids are dense and zero-based.  Whatever predicates have been
\* registered, in the base list, the parent list and the list of every
\* associated item the clause at position i carries the id i; the same holds
\* of the clause list of every item of a crate before the pruning pass, after
\* each of its iterations and when it has returned.
C16_DenseIds ==
    /\ dense(t_ctx.generic_params.trait_clauses)
    /\ dense(t_ctx.parent_trait_clauses)
    /\ \A name \in DOMAIN t_ctx.item_trait_clauses : dense(t_ctx.item_trait_clauses[name])
    /\ p_pc \in {"explore", "prune", "sweep", "done"} =>
          \A v \in clause_lists_of_crate(crate) : dense(v)

\* The pass has returned and an item of three clauses was pruned to two.
C16_Witness ==
    /\ p_pc = "done"
    /\ FunId(1) \in doesnt_use_self
    /\ Len(crate0.fun_decls[1].generics.trait_clauses) = 3
    /\ Len(crate.fun_decls[1].generics.trait_clauses) = 2

\* A TraitRefKind with every trait-clause id k replaced by k - 1.
RECURSIVE minus_one_kind(_)
minus_one_kind(kind) ==
    CASE kind[1] = "Clause" -> Clause(kind[2] - 1)
      [] kind[1] = "ParentClause" -> ParentClause(minus_one_kind(kind[2]), kind[3], kind[4] - 1)
      [] kind[1] = "ItemClause" ->
           ItemClause(minus_one_kind(kind[2]), kind[3], kind[4], kind[5] - 1)
      [] OTHER -> kind

\* The clause lists and the argument lists of an item after the removal of
\* clause 0 and the replacement of every id k by k - 1.
minus_one_clauses(v) ==
    [k \in 1..(Len(v) - 1) |->
        [v[k + 1] EXCEPT !.clause_id = @ - 1,
                         !.trait_.skip_binder.generics =
                             [j \in DOMAIN @ |-> minus_one_kind(@[j])]]]

minus_one_args(args) ==
    [a \in DOMAIN args |->
        [args[a] EXCEPT !.trait_refs =
            [k \in DOMAIN @ |-> [@[k] EXCEPT !.kind = minus_one_kind(@)]]]]

\* The functions the analysis looks at whose body is there and holds no
\* reference to clause 0.
body_without_self(c) ==
    {i \in {funs_to_explore(c)[k] : k \in DOMAIN funs_to_explore(c)} :
        /\ ~c.fun_decls[i].opaque
        /\ self_clause_id \notin clause_ids_outside_clauses(c.fun_decls[i])}

\* C17: every trait method or initializer of an associated constant whose
\* body holds no reference to clause 0 is handed to the second loop, and the
\* iteration of the second loop on it leaves the item with clause 0 removed,
\* the other clauses moved down by one position and id in their order, and
\* every trait-clause id k of the item, in its clause declarations and in its
\* body, replaced by k - 1.
C17_ItemPruned ==
    [][/\ (p_pc = "explore" /\ p_pc' = "prune") =>
             \A i \in body_without_self(crate) : FunId(i) \in p_todo'
       /\ (p_pc = "prune" /\ p_todo' # p_todo) =>
             \A any_id \in p_todo \ p_todo' :
                 (any_id[1] = "Fun" /\ has_item(crate, any_id)) =>
                    /\ get_item(crate', any_id).generics.trait_clauses
                          = minus_one_clauses(get_item(crate, any_id).generics.trait_clauses)
                    /\ get_item(crate', any_id).args
                          = minus_one_args(get_item(crate, any_id).args)]_vars

\* The items of a crate.
items_of(c) ==
    {c.fun_decls[i] : i \in DOMAIN c.fun_decls}
    \cup {c.global_decls[i] : i \in DOMAIN c.global_decls}

\* Every generic-argument list meant for an item has as many trait-reference
\* witnesses as the item has declared trait clauses.
slots_match_clauses(c) ==
    \A item \in items_of(c) : \A a \in DOMAIN item.args :
        (item.args[a].target[1] = "Item" /\ has_item(c, item.args[a].target[2])) =>
            Len(item.args[a].trait_refs)
                = Len(get_item(c, item.args[a].target[2]).generics.trait_clauses)

\* C18: if every generic-argument list of the crate handed to the pass had
\* as many witnesses as the item it is meant for had clauses, then so it is
\* when the pass has returned, for the lists inside pruned items, inside the
\* other trait items and inside items outside the trait, whether the item
\* they are meant for was pruned or not.
C18_SlotsMatchClauses ==
    (p_pc = "done" /\ slots_match_clauses(crate0)) => slots_match_clauses(crate)

\* The pass has returned, only function 0 was pruned; a list inside function
\* 1 is meant for function 0 and still holds a witness, and a list inside
\* function 0 is meant for function 1.
C18_Witness ==
    /\ p_pc = "done"
    /\ slots_match_clauses(crate0)
    /\ doesnt_use_self = {FunId(0)}
    /\ crate.fun_decls[1].args[1].target = ItemSource(FunId(0))
    /\ crate.fun_decls[0].args[1].target = ItemSource(FunId(1))
    /\ Len(crate.fun_decls[1].args[1].trait_refs) >= 1
    /\ Len(crate.fun_decls[1].args[1].trait_refs)
          < Len(crate0.fun_decls[1].args[1].trait_refs)

\* The trait methods of the crate handed to the pass whose body is opaque.
opaque_methods ==
    {i \in DOMAIN crate0.fun_decls :
        /\ \E k \in DOMAIN crate0.trait_decls[1].methods : crate0.trait_decls[1].methods[k] = i
        /\ crate0.fun_decls[i].opaque}

\* The witnesses new are the witnesses old, or the witnesses old without
\* the first; none was rewritten.
same_or_tail(old, new) ==
    \E d \in {0, 1} :
        /\ Len(new) = Len(old) - d
        /\ \A k \in DOMAIN new : new[k] = old[k + d]

\* C19: a trait method with an opaque body is never pruned.  It is never put
\* in doesnt_use_self; in every state of the pass its clause list is the one
\* it came with, clause 0 included, no witness of its argument lists has been
\* rewritten, and every argument list of the crate meant for it has the
\* number of witnesses it came with.
C19_OpaqueKept ==
    p_pc # "idle" =>
        \A i \in opaque_methods :
            /\ FunId(i) \notin doesnt_use_self
            /\ crate.fun_decls[i].generics = crate0.fun_decls[i].generics
            /\ \A a \in DOMAIN crate.fun_decls[i].args :
                  same_or_tail(crate0.fun_decls[i].args[a].trait_refs,
                               crate.fun_decls[i].args[a].trait_refs)
            /\ \A j \in DOMAIN crate.fun_decls : \A a \in DOMAIN crate.fun_decls[j].args :
                  crate.fun_decls[j].args[a].target = ItemSource(FunId(i)) =>
                      Len(crate.fun_decls[j].args[a].trait_refs)
                          = Len(crate0.fun_decls[j].args[a].trait_refs)

\* The pass has returned; function 0 is an opaque method with no reference
\* to clause 0 outside its clause declarations, function 1 was pruned and
\* holds an argument list meant for function 0.
C19_Witness ==
    /\ p_pc = "done"
    /\ 0 \in opaque_methods
    /\ self_clause_id \notin clause_ids_outside_clauses(crate0.fun_decls[0])
    /\ FunId(1) \in doesnt_use_self
    /\ crate.fun_decls[1].args[1].target = ItemSource(FunId(0))

\* The generic-argument lists of a crate, each under the item that holds it
\* and its index in the item.
sites_of(c) ==
    {<<FunId(i), a>> : i \in DOMAIN c.fun_decls, a \in {1}}
    \cup {<<GlobalId(i), a>> : i \in DOMAIN c.global_decls, a \in {1}}

site_at(c, site) == get_item(c, site[1]).args[site[2]]

has_site(c, site) == has_item(c, site[1]) /\ site[2] \in DOMAIN get_item(c, site[1]).args

\* C20: the sweep that follows the second loop takes the first witness away
\* from every generic-argument list of the crate meant for an item of
\* doesnt_use_self, the other witnesses keeping their order, and leaves the
\* witnesses of every other list (meant for another item, or for no item)
\* as they are; no list changes target.
C20_SecondSweep ==
    [][(p_pc = "sweep" /\ p_pc' = "done") =>
          \A site \in sites_of(crate) :
              has_site(crate, site) =>
                 /\ has_site(crate', site)
                 /\ site_at(crate', site).target = site_at(crate, site).target
                 /\ site_at(crate', site).trait_refs =
                       IF /\ site_at(crate, site).target[1] = "Item"
                          /\ site_at(crate, site).target[2] \in doesnt_use_self
                       THEN Tail(site_at(crate, site).trait_refs)
                       ELSE site_at(crate, site).trait_refs]_vars

\* The sweep has run on a crate of two methods of which only function 1 was
\* pruned: the list of function 0, meant for function 1, has lost a witness
\* and holds two, the list of function 1, meant for function 0, is as long
\* as it was.
C20_Witness ==
    /\ p_pc = "done"
    /\ crate.trait_decls[1].methods = <<0, 1>>
    /\ doesnt_use_self = {FunId(1)}
    /\ crate.fun_decls[0].args[1].target = ItemSource(FunId(1))
    /\ Len(crate.fun_decls[0].args[1].trait_refs) = 2
    /\ Len(crate0.fun_decls[0].args[1].trait_refs) = 3
    /\ crate.fun_decls[1].args[1].target = ItemSource(FunId(0))
    /\ Len(crate.fun_decls[1].args[1].trait_refs)
          = Len(crate0.fun_decls[1].args[1].trait_refs)

\* Every TraitClauseId of an item: the clause_id fields, the ids inside the
\* clause declarations and the ids outside them.
all_clause_ids(item) ==
    {item.generics.trait_clauses[k].clause_id : k \in DOMAIN item.generics.trait_clauses}
    \cup clause_ids_inside_clauses(item.generics.trait_clauses)
    \cup clause_ids_outside_clauses(item)

\* C21: when the pass has returned, in every item of doesnt_use_self every
\* trait-clause id, the clause index of the ParentClause and ItemClause
\* nodes included, is at most the length of the clause list of the item
\* minus one.
C21_IdsInRange ==
    p_pc = "done" =>
        \A any_id \in doesnt_use_self :
            has_item(crate, any_id) =>
                \A clause_id \in all_clause_ids(get_item(crate, any_id)) :
                    clause_id <= Len(get_item(crate, any_id).generics.trait_clauses) - 1

\* C22 (as stated): the renumbering of an item and the removal of the first
\* witness of the lists meant for it are one step, so that in no state of
\* the pass an item has a number of clauses other than the number of
\* witnesses of a list meant for it.
C22_AtomicPerItem ==
    p_pc \in {"explore", "prune", "sweep", "done"} => slots_match_clauses(crate)

\* C22 (amended): the renumbering of the items (second loop) and the removal
\* of the first witnesses (sweep) are two successive phases of the pass;
\* clauses and witnesses agree while the analysis runs and when the pass has
\* returned, and between the two only the steps of the second loop and of
\* the sweep write the crate, no registration step being taken meanwhile.
C22_AtomicPass ==
    [][/\ (p_pc = "explore" => slots_match_clauses(crate))
       /\ (p_pc' = "done" => slots_match_clauses(crate'))
       /\ (crate' # crate =>
              /\ p_pc \in {"prune", "sweep"}
              /\ r_pc = "idle" /\ r_pc' = "idle"
              /\ t_ctx' = t_ctx)]_vars

\* The second loop is over and the sweep has not run: an item has fewer
\* clauses than a list meant for it has witnesses.
C22_Witness ==
    /\ p_pc = "sweep"
    /\ doesnt_use_self # {}
    /\ slots_match_clauses(crate0)
    /\ ~slots_match_clauses(crate)

\* The item as the decrement finds it: its first clause has been removed.
without_first_clause(item) == [item EXCEPT !.generics.trait_clauses = Tail(@)]

\* C29: the decrement never underflows.  Whenever an iteration of the second
\* loop renumbers an item, no trait-clause id of the item is 0 once clause 0
\* has been removed (in its body, in the declarations of the clauses left, in
\* the global pruned with its initializer), and the run does not abort.
C29_NoUnderflow ==
    [][(p_pc = "prune" /\ p_todo' # p_todo) =>
          /\ p_pc' # "panic"
          /\ \A any_id \in p_todo \ p_todo' :
                has_item(crate, any_id) =>
                    0 \notin all_clause_ids(without_first_clause(get_item(crate, any_id)))]_vars

\* The lists register_predicate may write, under a name each: the three
\* kinds of clause lists and the three constraint lists.
ListNames ==
    {"base", "parent", "regions_outlive", "types_outlive", "trait_type_constraints"}
    \cup ItemNames

list_named(ctx, n) ==
    CASE n = "base" -> ctx.generic_params.trait_clauses
      [] n = "parent" -> ctx.parent_trait_clauses
      [] n = "regions_outlive" -> ctx.generic_params.regions_outlive
      [] n = "types_outlive" -> ctx.generic_params.types_outlive
      [] n = "trait_type_constraints" -> ctx.generic_params.trait_type_constraints
      [] OTHER -> entry_or_default(ctx.item_trait_clauses, n)

\* Exactly one list of new has one entry more than in old, at its end, and
\* every other list is as in old.
one_entry_appended(old, new) ==
    \E n \in ListNames :
        /\ Len(list_named(new, n)) = Len(list_named(old, n)) + 1
        /\ SubSeq(list_named(new, n), 1, Len(list_named(old, n))) = list_named(old, n)
        /\ \A m \in ListNames \ {n} : list_named(new, m) = list_named(old, m)

no_entry_appended(old, new) ==
    \A n \in ListNames : list_named(new, n) = list_named(old, n)

\* The step is a call of register_predicate that returns Ok.
register_predicate_succeeds == register_predicate_called /\ r_pc' = r_pc

\* The step is a call of register_predicate that does not return Ok.
register_predicate_fails == register_predicate_called /\ r_pc' # r_pc

\* When a call has failed register_predicates is over: nothing is
\* registered any more.
stops_on_failure ==
    /\ register_predicate_fails => no_entry_appended(t_ctx, t_ctx')
    /\ r_pc \in {"err", "panic"} => (t_ctx' = t_ctx /\ r_log' = r_log)

\* C30 (as stated): every call of register_predicate that returns Ok has
\* appended exactly one entry to exactly one list, whatever the kind of the
\* predicate; a failing call appends nothing and ends register_predicates.
C30_EverySuccessRecords ==
    [][/\ register_predicate_succeeds => one_entry_appended(t_ctx, t_ctx')
       /\ stops_on_failure]_vars

\* C30 (amended): a call of register_predicate that returns Ok has appended
\* exactly one entry to exactly one list when the predicate is a trait,
\* outlives or projection predicate, and nothing when it is a
\* ConstArgHasType clause, which is accepted and ignored; a failing call
\* appends nothing and ends register_predicates.
C30_SuccessRecordsOrIgnores ==
    [][/\ register_predicate_succeeds =>
             IF preds[r_i].kind = "ConstArgHasType"
             THEN no_entry_appended(t_ctx, t_ctx')
             ELSE one_entry_appended(t_ctx, t_ctx')
       /\ stops_on_failure]_vars

\* register_predicates has returned Ok on a ConstArgHasType clause followed
\* by a trait predicate: one clause is recorded, for two successful calls.
C30_Witness ==
    /\ r_pc = "ok" /\ calls = 1
    /\ Len(preds) = 2
    /\ preds[1].kind = "ConstArgHasType" /\ preds[2].kind = "Trait"
    /\ r_log = <<2, 1>>
    /\ Len(clauses_at(t_ctx, location)) = 1

\* The entry a step has appended to the list n.
last_entry(ctx, n) == list_named(ctx, n)[Len(list_named(ctx, n))]

\* The regions an entry is wrapped in: those of the trait of a clause, those
\* of the binder of a constraint.
regions_around(entry) ==
    IF "trait_" \in DOMAIN entry THEN entry.trait_.regions ELSE entry.regions

\* C24: binder scopes are nested and never leak.  A call of
\* register_predicate that returns, with Ok or with an error, leaves the
\* stack of region scopes as it found it, also when the closure has called
\* translate_trait_decl_ref, which opens and closes a scope of its own
\* inside; the clause or constraint the call registers is wrapped in the
\* regions of the scope opened for the predicate, not in those of a scope
\* around it or inside it.
C24_ScopesBalanced ==
    [][register_predicate_called =>
          /\ r_pc' # "panic" => t_ctx'.region_vars = t_ctx.region_vars
          /\ register_predicate_succeeds =>
                \A n \in ListNames :
                    Len(list_named(t_ctx', n)) > Len(list_named(t_ctx, n)) =>
                        regions_around(last_entry(t_ctx', n)) = preds[r_i].bound_vars]_vars

\* A trait predicate with a bound region has been registered, then a
\* projection predicate has failed inside translate_trait_decl_ref, two
\* scopes deep: one scope is open again.
C24_Witness ==
    /\ r_pc = "err"
    /\ r_log = <<1, 2>>
    /\ preds[1].kind = "Trait" /\ preds[1].bound_vars = <<"'a">>
    /\ preds[2].kind = "Projection"
    /\ preds[2].impl_expr.trait.generic_args = BadArgs
    /\ preds[2].impl_expr.trait.bound_vars = <<"'a">>
    /\ Len(t_ctx.region_vars) = 1
    /\ Len(clauses_at(t_ctx, location)) = 1
    /\ clauses_at(t_ctx, location)[1].trait_.regions = <<"'a">>

----------------------------------------------------------------------------
(* Claims about the blocks that goto-chain contraction removes *)

\* The number of edges of b that enter block i, one per terminator target.
incoming(b, i) ==
    CHOOSE n \in {Cardinality({k \in 1..Len(es) : es[k][2] = i}) : es \in {edges(b)}} : TRUE

is_prefix(s, t) == Len(s) <= Len(t) /\ SubSeq(t, 1, Len(s)) = s

\* C27: in every state of the pass the block ids are ids of the input and
\* each merge has removed one of them for good; every removed block had
\* exactly one incoming edge in the input, the unconditional jump of some
\* block; every block of the input with no or with several incoming edges is
\* still there under its id, its own statements first.
C27_OnlySingleGotoTargetsRemoved ==
    (round = 1 /\ ~dangling(body0)) =>
        /\ DOMAIN body = DOMAIN body0
        /\ present(body) \subseteq present(body0)
        /\ elem_count(body) = elem_count(body0) - merges
        /\ \A i \in present(body0) \ present(body) :
              /\ incoming(body0, i) = 1
              /\ \E s \in present(body0) : unwrap(body0[s]).terminator = Goto(i)
        /\ \A i \in present(body0) :
              \/ /\ i \in present(body)
                 /\ is_prefix(unwrap(body0[i]).statements, unwrap(body[i]).statements)
              \/ incoming(body0, i) = 1

\* The pass has ended after a merge on a body that also has a block entered
\* by two edges and a block, not the entry, entered by none.
C27_Witness ==
    /\ pc = "done" /\ round = 1 /\ merges >= 1
    /\ \E i \in present(body0) : incoming(body0, i) >= 2
    /\ present(body0) \ present(body) # {}

\* A block that ends in an unconditional jump to a block entered by exactly
\* one edge.
contractible(b) ==
    {i \in present(b) :
        /\ unwrap(b[i]).terminator[1] = "Goto"
        /\ incoming(b, unwrap(b[i]).terminator[2]) = 1}

\* C28 (as claimed): when the pass completes on a body without dangling
\* targets all of whose blocks can be reached from the entry, no block of the
\* output ends in an unconditional jump to a block with exactly one incoming
\* edge, also when the chain starts at a block entered through a call or one
\* branch of a switch.
C28_Fixpoint ==
    (pc = "done" /\ round = 1 /\ ~options.no_merge_goto_chains
        /\ ~dangling(body0) /\ all_reachable(body0)) =>
        contractible(body) = {}

----------------------------------------------------------------------------
(* Claims about comment recovery *)

\* The statements of body sts that start on a line and are not fake reads.
starting_at(sts, line) ==
    {k \in 1..Len(sts) : sts[k].span.beg.line = line /\ sts[k].content # "FakeRead"}

\* The span that starts the earliest, and among these the largest, of the
\* statements of a non-empty set.
earliest_largest(sts, ks) ==
    CHOOSE sp \in {sts[k].span : k \in ks} :
        \A k \in ks : ~better_span(sts[k].span, sp)

\* The statements whose span is the best span of their start line.
with_best_span(sts, line) ==
    IF starting_at(sts, line) = {} THEN {}
    ELSE {k \in 1..Len(sts) :
             /\ sts[k].span.beg.line = line
             /\ sts[k].span = earliest_largest(sts, starting_at(sts, line))}

first_of(ks) == CHOOSE k \in ks : \A j \in ks : k <= j

elems(seq) == {seq[k] : k \in 1..Len(seq)}

\* The statements that hold a comment of entry e of the comment list.
holders(sts, e) ==
    {k \in 1..Len(sts) : elems(e[2]) \cap elems(sts[k].comments_before) # {}}

\* C25: when the pass has returned, the comments of an entry of the comment
\* list are held by at most one statement, and only by the first statement
\* in visit order whose span is the best span of the line of the entry; every
\* other statement with the best span of its line has an empty comment list;
\* the comments of a line on which no statement starts are held by nobody.
C25_AtMostOneStatement ==
    c_pc = "done" =>
        /\ \A j \in 1..Len(c_body0.comments) :
              \E e \in {c_body0.comments[j]} :
              \E ks \in {with_best_span(c_body0.body, e[1].line)} :
                 /\ Cardinality(holders(c_body.body, e)) <= 1
                 /\ holders(c_body.body, e) \subseteq (IF ks = {} THEN {} ELSE {first_of(ks)})
                 /\ (\A k \in 1..Len(c_body0.body) : c_body0.body[k].span.beg.line # e[1].line)
                        => holders(c_body.body, e) = {}
        /\ \A line \in {1, 2} :
              \E ks \in {with_best_span(c_body0.body, line)} :
                 \A k \in ks :
                    IF k = first_of(ks)
                    THEN c_body.body[k].comments_before =
                            (IF line \in DOMAIN collect(c_body0.comments)
                             THEN collect(c_body0.comments)[line] ELSE <<>>)
                    ELSE c_body.body[k].comments_before = <<>>

\* The pass has returned on a body where two statements have the best span of
\* line 1, the first of them now holds the comments of line 1 and the second
\* has lost the comment it had, and a comment was recorded for line 3.
C25_Witness ==
    /\ c_pc = "done"
    /\ Cardinality(with_best_span(c_body0.body, 1)) >= 2
    /\ \E j \in 1..Len(c_body0.comments) :
          /\ c_body0.comments[j][1].line = 1
          /\ holders(c_body.body, c_body0.comments[j]) # {}
    /\ \E j \in 1..Len(c_body0.comments) : c_body0.comments[j][1].line = 3
    /\ \E k \in with_best_span(c_body0.body, 1) :
          /\ c_body0.body[k].comments_before # <<>>
          /\ c_body.body[k].comments_before = <<>>

----------------------------------------------------------------------------
(* Claims about the type store *)

\* C23: after any interleaving of Ty::new calls of the items, two returned
\* handles are the same handle exactly when the type expressions they were
\* built from are equal; no shape is behind two handles; and every handle
\* returned earlier still stands for the type expression it was returned for.
C23_HashConsingIdentity ==
    /\ \A x \in h_log : \A y \in h_log : (x[2] = y[2]) <=> (x[1] = y[1])
    /\ \A h1 \in 1..Len(store) : \A h2 \in 1..Len(store) :
          Ty_kind(store, h1) = Ty_kind(store, h2) => h1 = h2
    /\ \A x \in h_log : x[2] \in 1..Len(store) /\ expr_of(store, x[2]) = x[1]

\* Two items have asked for the same shape at the same time, one has its
\* handle and the other is still waiting; the store holds a pointer type.
C23_Witness ==
    /\ \E i \in Items : \E j \in Items :
          /\ h_pc[i] = "idle" /\ h_pc[j] = "wait"
          /\ \E x \in h_log : x[1] = expr_of_kind(store, unwrap(h_kind[j]))
    /\ \E h \in 1..Len(store) : Ty_kind(store, h)[1] = "RawPtr"
    /\ Cardinality(h_log) >= 2

----------------------------------------------------------------------------
(* Claims about control-flow structuring *)

\* The recursion of the pass has come to an end everywhere in the code.
RECURSIVE terminated(_)
terminated(block) ==
    \A k \in 1..Len(block) :
        CASE block[k][1] = "Diverged" -> FALSE
          [] block[k][1] = "Loop" -> terminated(block[k][2])
          [] block[k][1] = "Switch" ->
                \A j \in 1..Len(block[k][2]) : terminated(block[k][2][j].block)
          [] block[k][1] = "SwitchDispatch" ->
                \A j \in 1..Len(block[k][2]) : terminated(block[k][2][j])
          [] OTHER -> TRUE

\* No statement of the code jumps to a block: there is no goto, and every
\* break and continue names one of the nloops loops around it.
RECURSIVE no_free_target(_, _)
no_free_target(block, nloops) ==
    \A k \in 1..Len(block) :
        CASE block[k][1] = "Goto" -> FALSE
          [] block[k][1] \in {"Break", "Continue"} -> block[k][2] < nloops
          [] block[k][1] = "Loop" -> no_free_target(block[k][2], nloops + 1)
          [] block[k][1] = "Switch" ->
                \A j \in 1..Len(block[k][2]) : no_free_target(block[k][2][j].block, nloops)
          [] block[k][1] = "SwitchDispatch" ->
                \A j \in 1..Len(block[k][2]) : no_free_target(block[k][2][j], nloops)
          [] OTHER -> TRUE

\* The branches of every switch of the code were made for the targets of the
\* terminator of its block, in the order of the terminator.
RECURSIVE branch_order_kept(_, _)
branch_order_kept(g, block) ==
    \A k \in 1..Len(block) :
        CASE block[k][1] = "Loop" -> branch_order_kept(g, block[k][2])
          [] block[k][1] = "Switch" ->
                /\ [j \in 1..Len(block[k][2]) |-> block[k][2][j].target]
                     = targets(unwrap(g[block[k][3]]).terminator)
                /\ \A j \in 1..Len(block[k][2]) : branch_order_kept(g, block[k][2][j].block)
          [] block[k][1] = "SwitchDispatch" ->
                \A j \in 1..Len(block[k][2]) : branch_order_kept(g, block[k][2][j])
          [] OTHER -> TRUE

RECURSIVE has_switch(_)
has_switch(block) ==
    \E k \in 1..Len(block) :
        CASE block[k][1] = "Loop" -> has_switch(block[k][2])
          [] block[k][1] = "Switch" -> TRUE
          [] block[k][1] = "SwitchDispatch" ->
                \E j \in 1..Len(block[k][2]) : has_switch(block[k][2][j])
          [] OTHER -> FALSE

====
